---- MODULE Spec2Model ----
(***************************************************************************)
(* Handshake and lifecycle protocol of rpcplugin (go.rpcplugin.org).       *)
(*                                                                         *)
(* A plugin process runs Serve (server.go); it is launched either by an    *)
(* rpcplugin client running New (plugin.go) or by some other launcher that *)
(* gives it an arbitrary environment.  A client running New launches       *)
(* either a Serve-based plugin or some other program that writes arbitrary *)
(* lines to its stdout.                                                    *)
(*                                                                         *)
(* Go strings that are formatted, split or parsed are modelled as          *)
(* sequences of one-character strings, so that Split, Atoi, Itoa, base64   *)
(* and the handshake line are computed the way the code computes them.     *)
(***************************************************************************)
EXTENDS Integers, Sequences, FiniteSets, TLC

----------------------------------------------------------------------------
(* Bounds of the model *)

\* protocol versions range over 0..MaxVersion
MaxVersion == 2
\* the certificates of the model are MinCertLen, MinCertLen+1 and
\* MinCertLen+2 bytes of DER, one for each residue of the length modulo 3
MinCertLen == 38

Versions == 0..MaxVersion

----------------------------------------------------------------------------
(* Strings *)

sComma == <<",">>
sPipe == <<"|">>
sUnix == <<"u", "n", "i", "x">>
sTcp == <<"t", "c", "p">>
sGrpc == <<"g", "r", "p", "c">>
sUnixTcp == sUnix \o sComma \o sTcp

Digits == <<"0", "1", "2", "3", "4", "5", "6", "7", "8", "9">>

IsDigit(c) == \E i \in 1..10 : Digits[i] = c

DigitVal(c) == (CHOOSE i \in 1..10 : Digits[i] = c) - 1

\* unicode.IsSpace, for the characters of the model
IsSpace(c) == c \in {" ", "\n", "\t", "\r"}

RECURSIVE ItoaNat(_)
ItoaNat(n) == IF n < 10 THEN <<Digits[n + 1]>>
              ELSE ItoaNat(n \div 10) \o <<Digits[(n % 10) + 1]>>

\* strconv.Itoa
Itoa(n) == IF n < 0 THEN <<"-">> \o ItoaNat(0 - n) ELSE ItoaNat(n)

RECURSIVE DigitsVal(_, _)
DigitsVal(s, acc) == IF s = <<>> THEN acc
                     ELSE DigitsVal(Tail(s), acc * 10 + DigitVal(Head(s)))

\* strconv.Atoi: an optional sign followed by one or more decimal digits.
\* On a syntax error the value returned with the error is 0.
Atoi(s) ==
    LET body == IF s # <<>> /\ Head(s) \in {"+", "-"} THEN Tail(s) ELSE s
        neg == s # <<>> /\ Head(s) = "-"
    IN IF body = <<>> \/ \E i \in 1..Len(body) : ~IsDigit(body[i])
       THEN [v |-> 0, err |-> TRUE]
       ELSE [v |-> IF neg THEN 0 - DigitsVal(body, 0) ELSE DigitsVal(body, 0),
             err |-> FALSE]

\* the index of the first occurrence of character c in s, 0 if none
IndexOf(s, c) == IF \E i \in 1..Len(s) : s[i] = c
                 THEN CHOOSE i \in 1..Len(s) : s[i] = c /\ \A j \in 1..(i - 1) : s[j] # c
                 ELSE 0

\* strings.SplitN(s, c, n) for a one-character separator and n >= 1
RECURSIVE SplitN(_, _, _)
SplitN(s, c, n) ==
    LET i == IndexOf(s, c)
    IN IF n = 1 \/ i = 0 THEN <<s>>
       ELSE <<SubSeq(s, 1, i - 1)>> \o SplitN(SubSeq(s, i + 1, Len(s)), c, n - 1)

\* strings.Split(s, c): no limit on the number of fields
Split(s, c) == SplitN(s, c, Len(s) + 1)

\* strings.Join
RECURSIVE Join(_, _)
Join(list, sep) == IF list = <<>> THEN <<>>
                   ELSE IF Len(list) = 1 THEN list[1]
                   ELSE list[1] \o sep \o Join(Tail(list), sep)

RECURSIVE TrimLeft(_)
TrimLeft(s) == IF s # <<>> /\ IsSpace(Head(s)) THEN TrimLeft(Tail(s)) ELSE s

RECURSIVE TrimRight(_)
TrimRight(s) == IF s # <<>> /\ IsSpace(s[Len(s)])
                THEN TrimRight(SubSeq(s, 1, Len(s) - 1)) ELSE s

\* strings.TrimSpace
TrimSpace(s) == TrimRight(TrimLeft(s))

----------------------------------------------------------------------------
(* base64 (encoding/base64, RFC 4648 standard alphabet) *)

B64 == <<"A", "B", "C", "D", "E", "F", "G", "H", "I", "J", "K", "L", "M",
         "N", "O", "P", "Q", "R", "S", "T", "U", "V", "W", "X", "Y", "Z",
         "a", "b", "c", "d", "e", "f", "g", "h", "i", "j", "k", "l", "m",
         "n", "o", "p", "q", "r", "s", "t", "u", "v", "w", "x", "y", "z",
         "0", "1", "2", "3", "4", "5", "6", "7", "8", "9", "+", "/">>

IsB64(c) == \E i \in 1..64 : B64[i] = c

B64Val(c) == (CHOOSE i \in 1..64 : B64[i] = c) - 1

\* Encode bytes b; pad says whether the last quantum is padded with "=".
RECURSIVE B64Encode(_, _)
B64Encode(b, pad) ==
    IF b = <<>> THEN <<>>
    ELSE IF Len(b) = 1 THEN
        <<B64[(b[1] \div 4) + 1], B64[((b[1] % 4) * 16) + 1]>>
            \o (IF pad THEN <<"=", "=">> ELSE <<>>)
    ELSE IF Len(b) = 2 THEN
        <<B64[(b[1] \div 4) + 1],
          B64[((b[1] % 4) * 16 + (b[2] \div 16)) + 1],
          B64[((b[2] % 16) * 4) + 1]>>
            \o (IF pad THEN <<"=">> ELSE <<>>)
    ELSE
        <<B64[(b[1] \div 4) + 1],
          B64[((b[1] % 4) * 16 + (b[2] \div 16)) + 1],
          B64[((b[2] % 16) * 4 + (b[3] \div 64)) + 1],
          B64[(b[3] % 64) + 1]>>
            \o B64Encode(SubSeq(b, 4, Len(b)), pad)

\* base64.StdEncoding.EncodeToString
StdEncodeToString(b) == B64Encode(b, TRUE)

\* base64.RawStdEncoding.EncodeToString
RawStdEncodeToString(b) == B64Encode(b, FALSE)

\* the bytes of a string of alphabet characters whose length is not 1 mod 4
RECURSIVE B64Bytes(_)
B64Bytes(s) ==
    IF Len(s) < 2 THEN <<>>
    ELSE IF Len(s) = 2 THEN
        <<B64Val(s[1]) * 4 + (B64Val(s[2]) \div 16)>>
    ELSE IF Len(s) = 3 THEN
        <<B64Val(s[1]) * 4 + (B64Val(s[2]) \div 16),
          (B64Val(s[2]) % 16) * 16 + (B64Val(s[3]) \div 4)>>
    ELSE
        <<B64Val(s[1]) * 4 + (B64Val(s[2]) \div 16),
          (B64Val(s[2]) % 16) * 16 + (B64Val(s[3]) \div 4),
          (B64Val(s[3]) % 4) * 64 + B64Val(s[4])>>
            \o B64Bytes(SubSeq(s, 5, Len(s)))

\* base64.RawStdEncoding.DecodeString: the unpadded encoding.  A padding
\* character, like any other character outside the alphabet, is a
\* CorruptInputError, and so is a final quantum of one character.
RawStdDecodeString(s) ==
    IF (\E i \in 1..Len(s) : ~IsB64(s[i])) \/ Len(s) % 4 = 1
    THEN [bytes |-> <<>>, err |-> TRUE]
    ELSE [bytes |-> B64Bytes(s), err |-> FALSE]

\* s without the padding characters at its end
RECURSIVE StripPad(_)
StripPad(s) == IF s # <<>> /\ s[Len(s)] = "="
               THEN StripPad(SubSeq(s, 1, Len(s) - 1)) ELSE s

\* base64.StdEncoding.DecodeString: the padded encoding.  The length is a
\* multiple of 4 and the last quantum carries its padding.
StdDecodeString(s) ==
    LET t == StripPad(s)
    IN IF Len(s) % 4 # 0 \/ Len(s) - Len(t) > 2 \/ Len(t) % 4 = 1
          \/ \E i \in 1..Len(t) : ~IsB64(t[i])
       THEN [bytes |-> <<>>, err |-> TRUE]
       ELSE [bytes |-> B64Bytes(t), err |-> FALSE]

----------------------------------------------------------------------------
(* Certificates *)

\* The DER bytes of the certificate that generateCertificate issues in run
\* k; the content stands for the key and serial number, which are random.
CertDER(k) == [i \in 1..(MinCertLen + k) |-> (i * (2 * k + 3) + 11 * k) % 256]

CertIds == 0..2

\* the certificates that generateCertificate issues to the server in the
\* runs of the model, and the one it issues to the client
IssuedCertIds == 0..1
ClientCertIds == {0}

\* x509.ParseCertificate succeeds on the DER of a certificate, and on
\* nothing else
ParseCertificate(der) ==
    IF \E k \in CertIds : CertDER(k) = der
    THEN [cert |-> der, err |-> FALSE]
    ELSE [cert |-> <<>>, err |-> TRUE]

----------------------------------------------------------------------------
(* PEM (encoding/pem): a begin line, the padded base64 of the DER bytes    *)
(* and an end line; one character stands for each of the two lines.        *)

PEMEncode(der) == <<"-">> \o StdEncodeToString(der) \o <<"-">>

PEMDecode(s) ==
    IF Len(s) >= 2 /\ s[1] = "-" /\ s[Len(s)] = "-"
    THEN StdDecodeString(SubSeq(s, 2, Len(s) - 1))
    ELSE [bytes |-> <<>>, err |-> TRUE]

\* x509.CertPool.AppendCertsFromPEM: the certificates found in s; the
\* result of the Go function is whether there is one
AppendCertsFromPEM(s) ==
    IF ~PEMDecode(s).err /\ ~ParseCertificate(PEMDecode(s).bytes).err
    THEN {PEMDecode(s).bytes} ELSE {}

----------------------------------------------------------------------------
(* Environment (ctxenv) *)

CookieName == "COUNT_PLUGIN_COOKIE"
CookieVal == <<"k">>

EnvNames == {CookieName, "PLUGIN_PROTOCOL_VERSIONS", "PLUGIN_TRANSPORTS",
             "PLUGIN_CLIENT_CERT"}

\* ctxenv.Getenv: the empty string for a variable that is not set
Getenv(env, name) == IF name \in DOMAIN env THEN env[name] ELSE <<>>

----------------------------------------------------------------------------
(* State *)

VARIABLES
    launcher,   \* "direct": the plugin was started by something other than
                \* New; "client": it is started by New
    childKind,  \* what the child process runs: "serve" (a plugin that calls
                \* Serve) or "other" (any other program)
    proc,       \* the child process: "none", "running" or "exited"
    childOut,   \* the characters written to the child's real stdout and not
                \* yet read by the client
    srvEnv,     \* the environment of the plugin process
    srvCfg,     \* the ServerConfig given to Serve
    srvTracer,  \* which slots of the ServerTracer are set
    srv,        \* Serve: its position and its local variables
    stdio,      \* the process-wide os.Stdout / os.Stderr of the plugin
    srvHist,    \* the trace events and the observable steps of Serve, in order
    ctxErr,     \* Err() of the context given to Serve
    rpc,        \* the goroutine running serverGRPC.Serve
    cliCfg,     \* the ClientConfig given to New
    ctxEnv,     \* ctxenv.Environ of the context given to New
    cli         \* New: its position, its local variables and its results

sharedVars == <<launcher, childKind, proc, childOut>>
srvVars == <<srvEnv, srvCfg, srvTracer, srv, stdio, srvHist, ctxErr, rpc>>
cliVars == <<cliCfg, ctxEnv, cli>>
vars == <<sharedVars, srvVars, cliVars>>

Event(name, arg) == [ev |-> name, arg |-> arg]

NoListener == [network |-> <<>>, addr |-> <<>>, open |-> FALSE]

\* the socket path that serverListenUnix binds; the digits stand for the
\* random part of the name ioutil.TempDir chooses
UnixSocketPath == <<"/", "t", "/", "r", "p", "c", "1", "/", "s">>

\* the address a listener on 127.0.0.1:0 reports, with the port the
\* system assigned
TcpListenAddr == <<"1", "2", "7", ".", "0", ".", "0", ".", "1", ":", "5", "0", "0", "0">>

----------------------------------------------------------------------------
(* Version negotiation (server.go) *)

\* The loop over vStrs: the versions appended to clientVersions, and the
\* InvalidClientHandshakeVersion events.  The continue statement is inside
\* the test of the tracer slot.
RECURSIVE ParseClientVersions(_, _)
ParseClientVersions(vStrs, slot) ==
    IF vStrs = <<>> THEN [versions |-> <<>>, events |-> <<>>]
    ELSE LET a == Atoi(Head(vStrs))
             rest == ParseClientVersions(Tail(vStrs), slot)
         IN IF a.err /\ slot
            THEN [versions |-> rest.versions,
                  events |-> <<Event("InvalidClientHandshakeVersion", Head(vStrs))>>
                                \o rest.events]
            ELSE [versions |-> <<a.v>> \o rest.versions, events |-> rest.events]

RECURSIVE InsertDesc(_, _)
InsertDesc(x, s) == IF s = <<>> THEN <<x>>
                    ELSE IF x >= Head(s) THEN <<x>> \o s
                    ELSE <<Head(s)>> \o InsertDesc(x, Tail(s))

\* sort.Sort(sort.Reverse(sort.IntSlice(s)))
RECURSIVE SortDesc(_)
SortDesc(s) == IF s = <<>> THEN <<>> ELSE InsertDesc(Head(s), SortDesc(Tail(s)))

\* the first element of list that is a key of protoVersions, as a set
FirstIn(list, keys) ==
    {list[i] : i \in {j \in 1..Len(list) :
                        list[j] \in keys /\ \A k \in 1..(j - 1) : list[k] \notin keys}}

\* a negotiation without the early return for an empty variable: the empty
\* string goes through the loop as one element
negotiateServerProtoVersion_NoEarlyReturn(env, protoVersions, tracer) ==
    LET clientVersionsStr == Getenv(env, "PLUGIN_PROTOCOL_VERSIONS")
        parsed == ParseClientVersions(Split(clientVersionsStr, ","),
                                      tracer.InvalidClientHandshakeVersion)
        clientVersions == SortDesc(parsed.versions)
        hit == FirstIn(clientVersions, protoVersions)
    IN IF hit # {}
       THEN [version |-> CHOOSE v \in hit : TRUE, found |-> TRUE,
             clientVersions |-> clientVersions,
             events |-> parsed.events]
       ELSE [version |-> 0, found |-> FALSE,
             clientVersions |-> clientVersions,
             events |-> parsed.events \o
                        (IF tracer.VersionNegotationFailed
                         THEN <<Event("VersionNegotationFailed", clientVersions)>>
                         ELSE <<>>)]

\* negotiateServerProtoVersion: found is "server != nil"
negotiateServerProtoVersion(env, protoVersions, tracer) ==
    LET clientVersionsStr == Getenv(env, "PLUGIN_PROTOCOL_VERSIONS")
        parsed == ParseClientVersions(Split(clientVersionsStr, ","),
                                      tracer.InvalidClientHandshakeVersion)
        clientVersions == SortDesc(parsed.versions)
        hit == FirstIn(clientVersions, protoVersions)
    IN IF clientVersionsStr = <<>>
       THEN [version |-> 0, found |-> FALSE,
             clientVersions |-> <<>>,
             events |-> IF tracer.InvalidClientHandshakeVersion
                        THEN <<Event("InvalidClientHandshakeVersion", <<>>)>>
                        ELSE <<>>]
       ELSE IF hit # {}
       THEN [version |-> CHOOSE v \in hit : TRUE, found |-> TRUE,
             clientVersions |-> clientVersions,
             events |-> parsed.events]
       ELSE [version |-> 0, found |-> FALSE,
             clientVersions |-> clientVersions,
             events |-> parsed.events \o
                        (IF tracer.VersionNegotationFailed
                         THEN <<Event("VersionNegotationFailed", clientVersions)>>
                         ELSE <<>>)]

\* a client that always counts as go-plugin
clientSmellsLikeGoPlugin_Always(env) == TRUE

\* clientSmellsLikeGoPlugin
clientSmellsLikeGoPlugin(env) == Getenv(env, "PLUGIN_TRANSPORTS") = <<>>

\* a cookie check that only asks whether the variable is set
haveHandshakeCookie_AnyValue(env, cfg) == Getenv(env, cfg.CookieKey) # <<>>

\* haveHandshakeCookie.  Its panic for an empty CookieKey is not reached
\* from Serve, which checks the key first.
haveHandshakeCookie(env, cfg) == Getenv(env, cfg.CookieKey) = cfg.CookieValue

----------------------------------------------------------------------------
(* Listener and TLS configuration of the server (server_listener.go) *)

NoTLS == [kind |-> "none", cert |-> <<>>, clientCAs |-> {}]

\* filepath.IsAbs
IsAbs(path) == path # <<>> /\ Head(path) = "/"

\* path is dir or a file or directory below dir
Below(dir, path) ==
    /\ Len(path) >= Len(dir)
    /\ SubSeq(path, 1, Len(dir)) = dir
    /\ Len(path) > Len(dir) => path[Len(dir) + 1] = "/"

\* os.RemoveAll on a set of existing paths: the empty path removes nothing
RemoveAll(fs, path) ==
    IF path = <<>> THEN fs ELSE {f \in fs : ~Below(path, f)}

\* os.TempDir(), where ioutil.TempDir creates a directory when its first
\* argument is empty
OsTempDir == <<"/", "t">>

\* serverListenUnix, lines 93-100: XDG_RUNTIME_DIR if it is set and absolute
baseDir(env) ==
    LET runtimeDir == Getenv(env, "XDG_RUNTIME_DIR")
    IN IF runtimeDir # <<>> /\ IsAbs(runtimeDir) THEN runtimeDir ELSE <<>>

\* line 102: the directory ioutil.TempDir creates; the digit stands for
\* the random part of its name
socketDir(env) ==
    (IF baseDir(env) = <<>> THEN OsTempDir ELSE baseDir(env))
        \o <<"/", "r", "p", "c", "1">>

\* line 107
socketPath(env) == socketDir(env) \o <<"/", "s">>

\* serverListenUnix, lines 92-119: the paths that exist after it, given
\* those that existed before and whether ioutil.TempDir and net.Listen
\* succeed
serverListenUnix(env, fs, tempDirOk, listenOk) ==
    IF ~tempDirOk THEN fs
    ELSE IF ~listenOk THEN RemoveAll(fs \cup {socketDir(env)}, baseDir(env))
    ELSE fs \cup {socketDir(env), socketPath(env)}

\* the paths that exist after serverListen: every attempt at "unix" before
\* the transport that binds has run serverListenUnix
RECURSIVE ListenFiles(_, _, _, _, _, _)
ListenFiles(list, env, fs, unixOk, tempDirOk, tcpOk) ==
    IF list = <<>> THEN fs
    ELSE IF Head(list) = sUnix
    THEN IF unixOk THEN serverListenUnix(env, fs, TRUE, TRUE)
         ELSE ListenFiles(Tail(list), env,
                          serverListenUnix(env, fs, tempDirOk, FALSE),
                          unixOk, tempDirOk, tcpOk)
    ELSE IF Head(list) = sTcp /\ tcpOk THEN fs
    ELSE ListenFiles(Tail(list), env, fs, unixOk, tempDirOk, tcpOk)

\* rmListener.Close (and the Close of a TCP listener): closing the socket
\* fails if it is closed already, and then nothing is removed; closing a
\* UNIX socket unlinks it, and the directory is removed afterwards
CloseFiles(listener, fs) ==
    IF listener.open /\ listener.network = sUnix
    THEN RemoveAll(fs \ {listener.addr},
                   SubSeq(listener.addr, 1, Len(listener.addr) - 2))
    ELSE fs

\* a loop over the transports that gives up at the first one that does
\* not bind
RECURSIVE TryTransports_StopsAtFailure(_, _, _)
TryTransports_StopsAtFailure(list, unixOk, tcpOk) ==
    IF list = <<>> THEN NoListener
    ELSE IF Head(list) = sUnix /\ unixOk
    THEN [network |-> sUnix, addr |-> UnixSocketPath, open |-> TRUE]
    ELSE IF Head(list) = sTcp /\ tcpOk
    THEN [network |-> sTcp, addr |-> TcpListenAddr, open |-> TRUE]
    ELSE NoListener

\* serverListen, given for each transport whether binding it succeeds:
\* the transports of PLUGIN_TRANSPORTS are tried in order and the first
\* that binds wins
RECURSIVE TryTransports(_, _, _)
TryTransports(list, unixOk, tcpOk) ==
    IF list = <<>> THEN NoListener
    ELSE IF Head(list) = sUnix /\ unixOk
    THEN [network |-> sUnix, addr |-> UnixSocketPath, open |-> TRUE]
    ELSE IF Head(list) = sTcp /\ tcpOk
    THEN [network |-> sTcp, addr |-> TcpListenAddr, open |-> TRUE]
    ELSE TryTransports(Tail(list), unixOk, tcpOk)

\* the value of PLUGIN_TRANSPORTS that serverListen uses, lines 67-70
Transports(env) ==
    IF Getenv(env, "PLUGIN_TRANSPORTS") = <<>> THEN sUnixTcp
    ELSE Getenv(env, "PLUGIN_TRANSPORTS")

serverListen(env, unixOk, tcpOk) ==
    LET l == TryTransports(Split(Transports(env), ","), unixOk, tcpOk)
    IN IF l.network = sUnix THEN [l EXCEPT !.addr = socketPath(env)] ELSE l

\* serverTLSConfig with a nil configuration and a nil error of the TLSConfig
\* function taken as no TLS
serverTLSConfig_NilConfigIsNoTLS(env, fnResult, k) ==
    LET clientCert == Getenv(env, "PLUGIN_CLIENT_CERT")
    IN IF fnResult = "forceNoTLS" THEN [tls |-> NoTLS, err |-> FALSE]
       ELSE IF fnResult = "nilConfig" THEN [tls |-> NoTLS, err |-> FALSE]
       ELSE IF fnResult = "error" THEN [tls |-> NoTLS, err |-> TRUE]
       ELSE IF fnResult = "config"
       THEN [tls |-> [kind |-> "custom", cert |-> <<>>, clientCAs |-> {}],
             err |-> FALSE]
       ELSE IF clientCert = <<>> THEN [tls |-> NoTLS, err |-> TRUE]
       ELSE IF AppendCertsFromPEM(clientCert) = {} THEN [tls |-> NoTLS, err |-> TRUE]
       ELSE [tls |-> [kind |-> "auto", cert |-> CertDER(k),
                      clientCAs |-> AppendCertsFromPEM(clientCert)],
             err |-> FALSE]

\* serverTLSConfig.  fnResult is what the configuration function returned
\* ("nil" when ServerConfig.TLSConfig is nil); k is the certificate that
\* generateCertificate issues.
serverTLSConfig(env, fnResult, k) ==
    LET clientCert == Getenv(env, "PLUGIN_CLIENT_CERT")
    IN IF fnResult = "forceNoTLS" THEN [tls |-> NoTLS, err |-> FALSE]
       ELSE IF fnResult = "nilConfig" THEN [tls |-> NoTLS, err |-> TRUE]
       ELSE IF fnResult = "error" THEN [tls |-> NoTLS, err |-> TRUE]
       ELSE IF fnResult = "config"
       THEN [tls |-> [kind |-> "custom", cert |-> <<>>, clientCAs |-> {}],
             err |-> FALSE]
       ELSE IF clientCert = <<>> THEN [tls |-> NoTLS, err |-> TRUE]
       ELSE IF AppendCertsFromPEM(clientCert) = {} THEN [tls |-> NoTLS, err |-> TRUE]
       ELSE [tls |-> [kind |-> "auto", cert |-> CertDER(k),
                      clientCAs |-> AppendCertsFromPEM(clientCert)],
             err |-> FALSE]

\* autoCertStr: the certificate field of the handshake line
AutoCertStr(env, tls) ==
    IF Len(tls.cert) # 0
    THEN IF clientSmellsLikeGoPlugin(env)
         THEN RawStdEncodeToString(tls.cert)
         ELSE StdEncodeToString(tls.cert)
    ELSE <<>>

\* the handshake line: fmt.Fprintf(handshakeOut, "1|%d|%s|%s|grpc|%s\n", ...)
HandshakeLine(protoVersion, network, addr, autoCertStr) ==
    <<"1">> \o sPipe \o Itoa(protoVersion) \o sPipe \o network \o sPipe \o addr
        \o sPipe \o sGrpc \o sPipe \o autoCertStr \o <<"\n">>

----------------------------------------------------------------------------
(* Serve (server.go) *)

\* Serve and the tasks it starts.  chiErr is chiCtx.Err() and chiBy what
\* made chiCtx done; health is the status the health service reports;
\* notify says that signal.Notify was called, sigCh is the number of
\* signals in the channel ch, sigCount the count of the watcher, sigSent
\* the number of interrupts delivered to the process since Notify;
\* inflight is the number of requests the RPC server is handling;
\* pipeOut, pipeErr and realErr count the writes of the plugin's code that
\* went to the two pipes and to the process's stderr, leaks those that
\* went to the process's stdout or stderr while Serve had them redirected;
\* fs is the set of paths that exist, among those the listener deals with,
\* and closing the Path of an rmListener.Close that is between its two
\* steps; blocked is the number of writes of the plugin's code that wait
\* for room in a pipe.
SrvIdle == [pc |-> "idle", result |-> "none", protoVersion |-> 0,
            listener |-> NoListener, tls |-> NoTLS, autoCertStr |-> <<>>,
            services |-> {}, sigWatcher |-> FALSE, chiErr |-> "none",
            chiBy |-> "none", health |-> <<>>, notify |-> FALSE,
            sigCh |-> 0, sigCount |-> 0, sigSent |-> 0, inflight |-> 0,
            pipeOut |-> 0, pipeErr |-> 0, realErr |-> 0, leaks |-> 0,
            fs |-> {}, closing |-> <<>>, blocked |-> 0]

\* a return of Serve that leaves os.Stdout and os.Stderr as they are
ServeReturn_NoRestore(result) ==
    /\ srv' = [srv EXCEPT !.pc = "returned", !.result = result,
                          !.listener = [srv.listener EXCEPT !.open = FALSE],
                          !.fs = CloseFiles(srv.listener, srv.fs),
                          !.protoVersion = 0, !.tls = NoTLS,
                          !.autoCertStr = <<>>, !.services = {}]
    /\ stdio' = stdio
    /\ proc' = "exited"

\* Serve returns result: the deferred functions restore os.Stdout and
\* os.Stderr and close the listener, and the plugin's main function ends
ServeReturn(result) ==
    /\ srv' = [srv EXCEPT !.pc = "returned", !.result = result,
                          !.listener = [srv.listener EXCEPT !.open = FALSE],
                          !.fs = CloseFiles(srv.listener, srv.fs),
                          !.protoVersion = 0, !.tls = NoTLS,
                          !.autoCertStr = <<>>, !.services = {}]
    /\ stdio' = "real"
    /\ proc' = "exited"

\* lines 44-49: the configuration check and the cookie check
ServeCookie ==
    /\ srv.pc = "start"
    /\ IF srvCfg.CookieKey = "" \/ srvCfg.CookieValue = <<>>
       THEN ServeReturn("ConfigError")
       ELSE IF ~haveHandshakeCookie(srvEnv, srvCfg)
       THEN ServeReturn("NotChildProcessError")
       ELSE /\ srv' = [srv EXCEPT !.pc = "negotiate"]
            /\ UNCHANGED <<stdio, proc>>
    /\ UNCHANGED <<launcher, childKind, childOut, srvEnv, srvCfg, srvTracer,
                   srvHist, ctxErr, rpc, cliVars>>

\* lines 51-55
ServeNegotiate ==
    /\ srv.pc = "negotiate"
    /\ LET n == negotiateServerProtoVersion(srvEnv, srvCfg.ProtoVersions, srvTracer)
       IN /\ srvHist' = srvHist \o n.events
          /\ IF ~n.found
             THEN ServeReturn("NegotiationError")
             ELSE /\ srv' = [srv EXCEPT !.pc = "listen", !.protoVersion = n.version]
                  /\ UNCHANGED <<stdio, proc>>
    /\ UNCHANGED <<launcher, childKind, childOut, srvEnv, srvCfg, srvTracer,
                   ctxErr, rpc, cliVars>>

\* which transports the system lets the process bind when serverListen
\* runs
TryBind(unixOk, tcpOk) == Event("tryBind", [unix |-> unixOk, tcp |-> tcpOk])

\* lines 57-61
ServeListen ==
    /\ srv.pc = "listen"
    /\ \E unixOk \in BOOLEAN, tcpOk \in BOOLEAN, tempDirOk \in BOOLEAN :
         LET l == serverListen(srvEnv, unixOk, tcpOk)
             fs == ListenFiles(Split(Transports(srvEnv), ","), srvEnv, srv.fs,
                               unixOk, tempDirOk, tcpOk)
         IN /\ unixOk => tempDirOk
            /\ IF ~l.open
               THEN /\ srv' = [srv EXCEPT !.pc = "returned",
                                          !.result = "ListenError", !.fs = fs]
                    /\ proc' = "exited"
                    /\ UNCHANGED stdio
                    /\ srvHist' = Append(srvHist, TryBind(unixOk, tcpOk))
               ELSE /\ srv' = [srv EXCEPT !.pc = "tls", !.listener = l, !.fs = fs]
                    /\ srvHist' = srvHist \o <<TryBind(unixOk, tcpOk),
                                               Event("bind", l.network)>>
                    /\ UNCHANGED <<stdio, proc>>
    /\ UNCHANGED <<launcher, childKind, childOut, srvEnv, srvCfg, srvTracer,
                   ctxErr, rpc, cliVars>>

\* what a ServerConfig.TLSConfig function can return
FnResults == {"config", "nilConfig", "error", "forceNoTLS"}

\* the call of ServerConfig.TLSConfig, if there is one, and what it returns
TLSConfigFn(fnResult) ==
    IF fnResult = "nil" THEN <<>> ELSE <<Event("TLSConfigFn", fnResult)>>

\* lines 63-81
ServeTLS ==
    /\ srv.pc = "tls"
    /\ \E fnResult \in (IF srvCfg.TLSConfig = "nil" THEN {"nil"} ELSE FnResults),
          k \in IssuedCertIds :
         LET r == serverTLSConfig(srvEnv, fnResult, k)
             str == AutoCertStr(srvEnv, r.tls)
         IN /\ fnResult # "nil" => k = 0
            /\ IF r.err
               THEN /\ ServeReturn("TLSError")
                    /\ srvHist' = srvHist \o TLSConfigFn(fnResult) \o
                         (IF fnResult = "error" /\ srvTracer.TLSConfig
                          THEN <<Event("TLSConfig", FALSE)>> ELSE <<>>)
               ELSE /\ srv' = [srv EXCEPT !.pc = "redirect", !.tls = r.tls,
                                          !.autoCertStr = str]
                    /\ srvHist' = srvHist \o TLSConfigFn(fnResult) \o
                         (IF fnResult = "config" /\ srvTracer.TLSConfig
                          THEN <<Event("TLSConfig", FALSE)>> ELSE <<>>) \o
                         (IF srvTracer.TLSConfig
                          THEN <<Event("TLSConfig", str # <<>>)>> ELSE <<>>)
                    /\ UNCHANGED <<stdio, proc>>
    /\ UNCHANGED <<launcher, childKind, childOut, srvEnv, srvCfg, srvTracer,
                   ctxErr, rpc, cliVars>>

\* lines 83-103: the pipes and the redirection of os.Stdout and os.Stderr
ServeRedirect ==
    /\ srv.pc = "redirect"
    /\ \E pipesOk \in BOOLEAN :
         IF ~pipesOk
         THEN /\ ServeReturn("PipeError")
              /\ UNCHANGED srvHist
         ELSE /\ srv' = [srv EXCEPT !.pc = "init"]
              /\ stdio' = "pipes"
              /\ srvHist' = Append(srvHist, Event("redirect", Len(childOut)))
              /\ UNCHANGED proc
    /\ UNCHANGED <<launcher, childKind, childOut, srvEnv, srvCfg, srvTracer,
                   ctxErr, rpc, cliVars>>

\* the name under which the health service reports its status
grpcServiceName == "plugin"

\* an initialisation of the RPC server that already starts to serve on
\* the listener
ServeInit_StartsServing ==
    /\ srv.pc = "init"
    /\ \E registerOk \in BOOLEAN :
         IF ~registerOk
         THEN /\ ServeReturn("InitError")
              /\ UNCHANGED rpc
         ELSE /\ srv' = [srv EXCEPT !.pc = "signals",
                           !.services = {"health", "caller"} \cup
                              (IF clientSmellsLikeGoPlugin(srvEnv)
                               THEN {"shutdown"} ELSE {})]
              /\ rpc' = "spawned"
              /\ UNCHANGED <<stdio, proc>>
    /\ UNCHANGED <<launcher, childKind, childOut, srvEnv, srvCfg, srvTracer,
                   srvHist, ctxErr, cliVars>>

\* lines 105-121 and serverGRPC.Init: the health service, the shutdown
\* service for a go-plugin client, and the caller's services
ServeInit ==
    /\ srv.pc = "init"
    /\ \E registerOk \in BOOLEAN :
         IF ~registerOk
         THEN /\ ServeReturn("InitError")
         ELSE /\ srv' = [srv EXCEPT !.pc = "signals",
                           !.chiErr = ctxErr,
                           !.chiBy = IF ctxErr = "none" THEN "none" ELSE "ctx",
                           !.health = <<grpcServiceName, "SERVING">>,
                           !.services = {"health", "caller"} \cup
                              (IF clientSmellsLikeGoPlugin(srvEnv)
                               THEN {"shutdown"} ELSE {})]
              /\ UNCHANGED <<stdio, proc>>
    /\ UNCHANGED <<launcher, childKind, childOut, srvEnv, srvCfg, srvTracer,
                   srvHist, ctxErr, rpc, cliVars>>

\* lines 123-144: the goroutine that eats interrupt signals
ServeSignals ==
    /\ srv.pc = "signals"
    /\ srv' = [srv EXCEPT !.pc = "handshake",
                          !.sigWatcher = ~srvCfg.NoSignalHandlers,
                          !.notify = ~srvCfg.NoSignalHandlers]
    /\ UNCHANGED <<sharedVars, srvEnv, srvCfg, srvTracer, stdio, srvHist,
                   ctxErr, rpc, cliVars>>

\* lines 146-159: the handshake line goes to the real stdout
ServeHandshake ==
    /\ srv.pc = "handshake"
    /\ \E writeOk \in BOOLEAN :
         IF ~writeOk
         THEN /\ ServeReturn("HandshakeWriteError")
              /\ UNCHANGED <<srvHist, childOut>>
         ELSE LET line == HandshakeLine(srv.protoVersion, srv.listener.network,
                                        srv.listener.addr, srv.autoCertStr)
              IN /\ childOut' = childOut \o line
                 /\ srvHist' = Append(srvHist, Event("handshake",
                                 [line |-> line, protoVersion |-> srv.protoVersion,
                                  network |-> srv.listener.network,
                                  addr |-> srv.listener.addr,
                                  cert |-> srv.tls.cert]))
                 /\ srv' = [srv EXCEPT !.pc = "go"]
                 /\ UNCHANGED <<stdio, proc>>
    /\ UNCHANGED <<launcher, childKind, srvEnv, srvCfg, srvTracer,
                   ctxErr, rpc, cliVars>>

\* line 161: go srvGRC.Serve(listener)
ServeGo ==
    /\ srv.pc = "go"
    /\ rpc' = "spawned"
    /\ srv' = [srv EXCEPT !.pc = "listening"]
    /\ UNCHANGED <<sharedVars, srvEnv, srvCfg, srvTracer, stdio, srvHist,
                   ctxErr, cliVars>>

\* lines 163-165
ServeListening ==
    /\ srv.pc = "listening"
    /\ srvHist' = IF srvTracer.Listening
                  THEN Append(srvHist, Event("Listening", srv.protoVersion))
                  ELSE srvHist
    /\ srv' = [srv EXCEPT !.pc = "wait"]
    /\ UNCHANGED <<sharedVars, srvEnv, srvCfg, srvTracer, stdio, ctxErr, rpc, cliVars>>

\* serverGRPC.Serve, in its goroutine: grpcServer.Serve(l) starts to accept
\* connections on the listener
GrpcServe ==
    /\ rpc = "spawned"
    /\ proc = "running"
    /\ rpc' = "serving"
    /\ srvHist' = Append(srvHist, Event("serveRPC", <<>>))
    /\ UNCHANGED <<sharedVars, srvEnv, srvCfg, srvTracer, srv, stdio, ctxErr, cliVars>>

\* grpcServer.Serve ends on an error of Accept and closes the listener it
\* was given: rmListener.Close has closed the socket (line 139) and has
\* not yet removed the directory (line 143)
GrpcListenerClose ==
    /\ rpc = "serving"
    /\ proc = "running"
    /\ rpc' = "closing"
    /\ srv' = [srv EXCEPT !.listener = [srv.listener EXCEPT !.open = FALSE],
                          !.fs = IF srv.listener.network = sUnix
                                 THEN @ \ {srv.listener.addr} ELSE @,
                          !.closing = IF srv.listener.network = sUnix
                                      THEN SubSeq(srv.listener.addr, 1,
                                                  Len(srv.listener.addr) - 2)
                                      ELSE <<>>]
    /\ UNCHANGED <<sharedVars, srvEnv, srvCfg, srvTracer, stdio, srvHist,
                   ctxErr, cliVars>>

\* the first cancellation of chiCtx is the one that counts
Cancel(s, by, e) ==
    IF s.chiErr = "none" THEN [s EXCEPT !.chiErr = e, !.chiBy = by] ELSE s

\* serverGRPC.Serve: grpcServer.Serve returns, with an error since nothing
\* stops the server, and has closed the listener on its way out;
\* GRPCServeError is called and the deferred s.Done() cancels chiCtx
GrpcServeReturn ==
    /\ rpc \in {"serving", "closing"}
    /\ proc = "running"
    /\ rpc' = "stopped"
    /\ srv' = Cancel([srv EXCEPT !.listener = [srv.listener EXCEPT !.open = FALSE],
                                 !.fs = IF rpc = "closing"
                                        THEN RemoveAll(srv.fs, srv.closing)
                                        ELSE CloseFiles(srv.listener, srv.fs),
                                 !.closing = <<>>],
                     "Done", "Canceled")
    /\ srvHist' = IF srvTracer.GRPCServeError
                  THEN Append(srvHist, Event("GRPCServeError", <<>>))
                  ELSE srvHist
    /\ UNCHANGED <<sharedVars, srvEnv, srvCfg, srvTracer, stdio, ctxErr, cliVars>>

\* Serve is past line 105, where chiCtx is made, and has not returned
ChiCtxLive ==
    srv.pc \in {"signals", "handshake", "go", "listening", "wait"}

\* The context given to Serve becomes done, by cancellation or by
\* deadline.  Before line 105 Serve does not look at it, so that a context
\* done earlier is one that becomes done just before that line.
CtxDone ==
    /\ srv.pc = "init" \/ ChiCtxLive
    /\ proc = "running"
    /\ ctxErr = "none"
    /\ \E e \in {"Canceled", "DeadlineExceeded"} :
         /\ ctxErr' = e
         /\ srv' = IF ChiCtxLive THEN Cancel(srv, "ctx", e) ELSE srv
    /\ UNCHANGED <<sharedVars, srvEnv, srvCfg, srvTracer, stdio, srvHist, rpc, cliVars>>

\* a ServeWait that returns the error of chiCtx as it is
ServeWait_ReturnsErr ==
    /\ srv.pc = "wait"
    /\ srv.chiErr # "none"
    /\ ServeReturn(srv.chiErr)
    /\ UNCHANGED <<launcher, childKind, childOut, srvEnv, srvCfg, srvTracer,
                   srvHist, ctxErr, rpc, cliVars>>

\* lines 166-171
ServeWait ==
    /\ srv.pc = "wait"
    /\ srv.chiErr # "none"
    /\ ServeReturn(IF srv.chiErr = "Canceled" THEN "nil" ELSE srv.chiErr)
    /\ UNCHANGED <<launcher, childKind, childOut, srvEnv, srvCfg, srvTracer,
                   srvHist, ctxErr, rpc, cliVars>>

----------------------------------------------------------------------------
(* What happens to the plugin process while Serve runs *)

\* the number of interrupt signals delivered to the process
MaxSignals == 2

\* the number of requests the RPC server handles at a time
MaxRequests == 1

\* the number of writes of the plugin's code to os.Stdout and os.Stderr
MaxWrites == 2

\* the number of writes the buffer of a pipe holds
PipeBuffer == 1

\* what the plugin's code writes
PluginData == <<"p", "\n">>

\* the process ends at once, without the deferred functions of Serve
Crash(pc) ==
    /\ srv' = [srv EXCEPT !.pc = pc,
                          !.listener = [srv.listener EXCEPT !.open = FALSE]]
    /\ proc' = "exited"
    /\ rpc' = IF rpc = "none" THEN rpc ELSE "stopped"

\* a panic in the code of the plugin that Serve calls on its own goroutine
\* (RegisterServer in serverGRPC.Init, or the Listening slot of the
\* tracer): Serve unwinds and its deferred functions run
ServePanic ==
    /\ srv.pc = "init" \/ (srv.pc = "listening" /\ srvTracer.Listening)
    /\ ServeReturn("panic")
    /\ UNCHANGED <<launcher, childKind, childOut, srvEnv, srvCfg, srvTracer,
                   srvHist, ctxErr, rpc, cliVars>>

\* gopluginshim: the Shutdown RPC of the controller service.  The server
\* registered is &controllerServer{}, whose close is nil, so the call
\* c.close() panics in the goroutine of the request and the process ends.
Shutdown ==
    /\ rpc = "serving"
    /\ proc = "running"
    /\ "shutdown" \in srv.services
    /\ srvHist' = Append(srvHist, Event("Shutdown", <<>>))
    /\ Crash("crashed")
    /\ UNCHANGED <<launcher, childKind, childOut, srvEnv, srvCfg, srvTracer,
                   stdio, ctxErr, cliVars>>

\* the RPC server accepts a request of the client and starts to handle it
RpcAccept ==
    /\ rpc = "serving"
    /\ proc = "running"
    /\ srv.inflight < MaxRequests
    /\ srv' = [srv EXCEPT !.inflight = @ + 1]
    /\ UNCHANGED <<sharedVars, srvEnv, srvCfg, srvTracer, stdio, srvHist,
                   ctxErr, rpc, cliVars>>

\* the handler of a request returns
RpcComplete ==
    /\ proc = "running"
    /\ srv.inflight > 0
    /\ srv' = [srv EXCEPT !.inflight = @ - 1]
    /\ UNCHANGED <<sharedVars, srvEnv, srvCfg, srvTracer, stdio, srvHist,
                   ctxErr, rpc, cliVars>>

\* An interrupt signal is delivered to the process.  After signal.Notify
\* (line 128) it goes to the channel ch, which holds one signal; the
\* signal package does not block, so a signal that finds ch full is
\* dropped.  Without Notify the signal ends the process.
Interrupt ==
    /\ proc = "running"
    /\ srv.pc \in {"handshake", "go", "listening", "wait"}
    /\ srv.sigSent < MaxSignals
    /\ IF srv.notify
       THEN /\ srv' = [srv EXCEPT !.sigSent = @ + 1, !.sigCh = 1]
            /\ UNCHANGED <<proc, rpc>>
       ELSE Crash("killed")
    /\ UNCHANGED <<launcher, childKind, childOut, srvEnv, srvCfg, srvTracer,
                   stdio, srvHist, ctxErr, cliVars>>

\* lines 134-138: the watcher takes a signal from ch, counts it and calls
\* InterruptIgnored
SigWatcherRecv ==
    /\ srv.sigWatcher
    /\ proc = "running"
    /\ srv.sigCh > 0
    /\ srv' = [srv EXCEPT !.sigCh = @ - 1, !.sigCount = @ + 1]
    /\ srvHist' = IF srvTracer.InterruptIgnored
                  THEN Append(srvHist, Event("InterruptIgnored", srv.sigCount + 1))
                  ELSE srvHist
    /\ UNCHANGED <<sharedVars, srvEnv, srvCfg, srvTracer, stdio, ctxErr, rpc, cliVars>>

\* lines 139-140: the watcher sees chiCtx done and ends
SigWatcherExit ==
    /\ srv.sigWatcher
    /\ proc = "running"
    /\ srv.chiErr # "none"
    /\ srv' = [srv EXCEPT !.sigWatcher = FALSE]
    /\ UNCHANGED <<sharedVars, srvEnv, srvCfg, srvTracer, stdio, srvHist,
                   ctxErr, rpc, cliVars>>

\* the number of writes the plugin's code has made
Writes ==
    srv.pipeOut + srv.pipeErr + srv.realErr + srv.blocked
      + Cardinality({i \in 1..Len(childOut) : childOut[i] = "p"})

\* The code of the plugin writes to its standard output or error: before
\* Serve redirects them, or in what Serve calls and starts afterwards
\* (RegisterServer, the slots of the tracer, the handlers of requests).
\* It writes to what os.Stdout or os.Stderr is at the time, or to the file
\* that was os.Stdout or os.Stderr when the process started, as the
\* standard logger of package log does; lines 98-99 change the two
\* variables, not the files.  Nothing reads the pipes (the fields Stdout
\* and Stderr of serverGRPC are not used), so a write into a pipe whose
\* buffer is full waits.
PluginWrite ==
    /\ proc = "running"
    /\ srv.pc \notin {"idle", "returned"}
    /\ Writes < MaxWrites
    /\ \E stream \in {"stdout", "stderr"}, handle \in {"current", "initial"} :
         IF stdio = "pipes" /\ handle = "current"
         THEN /\ srv' = IF (IF stream = "stdout" THEN srv.pipeOut
                            ELSE srv.pipeErr) >= PipeBuffer
                        THEN [srv EXCEPT !.blocked = @ + 1]
                        ELSE IF stream = "stdout"
                        THEN [srv EXCEPT !.pipeOut = @ + 1]
                        ELSE [srv EXCEPT !.pipeErr = @ + 1]
              /\ UNCHANGED childOut
         ELSE IF stream = "stdout"
         THEN /\ childOut' = childOut \o PluginData
              /\ srv' = [srv EXCEPT !.leaks = IF stdio = "pipes" THEN @ + 1 ELSE @]
         ELSE /\ srv' = [srv EXCEPT !.realErr = @ + 1,
                                    !.leaks = IF stdio = "pipes" THEN @ + 1 ELSE @]
              /\ UNCHANGED childOut
    /\ UNCHANGED <<launcher, childKind, proc, srvEnv, srvCfg, srvTracer,
                   stdio, srvHist, ctxErr, rpc, cliVars>>

----------------------------------------------------------------------------
(* The environment of the child (plugin.go, lines 68-100) *)

\* the value the child process sees for name in the list Cmd.Env of
\* <<name, value>> entries: os/exec passes on the last entry of each name
EnvLookup(list, name) ==
    LET idx == {i \in 1..Len(list) : list[i][1] = name}
    IN IF idx = {} THEN <<>>
       ELSE list[CHOOSE i \in idx : \A j \in idx : j <= i][2]

EnvOf(list) == [n \in EnvNames |-> EnvLookup(list, n)]

\* the orders in which "for v := range config.ProtoVersions" can visit keys
Orders(keys) == {o \in [1..Cardinality(keys) -> keys] :
                    \A i, j \in 1..Cardinality(keys) : i # j => o[i] # o[j]}

VersionStrings(order) == [i \in 1..Len(order) |-> Itoa(order[i])]

\* environ, before the context's environment is appended
ClientEnviron(cfg, order, certPEM) ==
    <<  <<cfg.CookieKey, cfg.CookieValue>>,
        <<"PLUGIN_MIN_PORT", Itoa(cfg.MinPort)>>,
        <<"PLUGIN_MAX_PORT", Itoa(cfg.MaxPort)>>,
        <<"PLUGIN_PROTOCOL_VERSIONS", Join(VersionStrings(order), sComma)>> >>
    \o (IF cfg.TLSConfig = "nil" THEN << <<"PLUGIN_CLIENT_CERT", certPEM>> >> ELSE <<>>)

\* config.Cmd.Env = append(environ, ctxenv.Environ(ctx)...)
CmdEnv(cfg, order, certPEM, ctxEnviron) ==
    ClientEnviron(cfg, order, certPEM) \o ctxEnviron

----------------------------------------------------------------------------
(* Parsing the handshake line (plugin.go, lines 173-245) *)

\* a sixth field must be longer than this to be read as a certificate
CertFieldMin == 50

LastIndexOf(s, c) == IF \E i \in 1..Len(s) : s[i] = c
                     THEN CHOOSE i \in 1..Len(s) : s[i] = c /\ \A j \in (i + 1)..Len(s) : s[j] # c
                     ELSE 0

\* the hosts that resolve: the empty host and the loopback address
Loopback == <<"1", "2", "7", ".", "0", ".", "0", ".", "1">>

\* net.ResolveTCPAddr("tcp", s): host:port, with a numeric port
ResolveTCPAddr(s) ==
    LET i == LastIndexOf(s, ":")
        host == SubSeq(s, 1, i - 1)
        port == Atoi(SubSeq(s, i + 1, Len(s)))
    IN IF i = 0 \/ port.err \/ port.v < 0 \/ port.v > 65535
          \/ host \notin {<<>>, Loopback}
       THEN [err |-> TRUE, network |-> <<>>, str |-> <<>>]
       ELSE [err |-> FALSE, network |-> sTcp, str |-> host \o <<":">> \o Itoa(port.v)]

\* net.ResolveUnixAddr("unix", s)
ResolveUnixAddr(s) == [err |-> FALSE, network |-> sUnix, str |-> s]

\* the decoding of the certificate field
DecodeCertField(certStr) == RawStdDecodeString(certStr)

\* the checks of lines 175-188 with the RPC protocol checked before the
\* handshake version
HandshakeHeaderError_ProtocolFirst(parts) ==
    IF Len(parts) < 5 THEN "invalid handshake message"
    ELSE IF parts[5] # sGrpc THEN "invalid RPC protocol"
    ELSE IF parts[1] # <<"1">> THEN "invalid handshake version"
    ELSE "none"

\* lines 175-188: the number of fields, the handshake version and the RPC
\* protocol, checked in this order
HandshakeHeaderError(parts) ==
    IF Len(parts) < 5 THEN "invalid handshake message"
    ELSE IF parts[1] # <<"1">> THEN "invalid handshake version"
    ELSE IF parts[5] # sGrpc THEN "invalid RPC protocol"
    ELSE "none"

\* the check of lines 190-203 without the test of Atoi's error: a field
\* that is no integer counts as version 0
HandshakeVersion_IgnoreAtoiError(parts, protoVersions) ==
    LET a == Atoi(parts[2])
    IN IF a.v \notin DOMAIN protoVersions
       THEN [err |-> "unsupported protocol version", version |-> 0, cv |-> 0]
       ELSE [err |-> "none", version |-> a.v, cv |-> protoVersions[a.v]]

\* lines 190-203: the protocol version the server selected and the client
\* factory registered for it
HandshakeVersion(parts, protoVersions) ==
    LET a == Atoi(parts[2])
    IN IF a.err THEN [err |-> "invalid protocol version", version |-> 0, cv |-> 0]
       ELSE IF a.v \notin DOMAIN protoVersions
       THEN [err |-> "unsupported protocol version", version |-> 0, cv |-> 0]
       ELSE [err |-> "none", version |-> a.v, cv |-> protoVersions[a.v]]

\* lines 205-221: the transport and the address
HandshakeAddr(parts) ==
    IF parts[3] = sTcp
    THEN LET a == ResolveTCPAddr(parts[4])
         IN IF a.err
            THEN [err |-> "invalid TCP socket address", network |-> <<>>, addr |-> <<>>]
            ELSE [err |-> "none", network |-> a.network, addr |-> a.str]
    ELSE IF parts[3] = sUnix
    THEN LET a == ResolveUnixAddr(parts[4])
         IN [err |-> "none", network |-> a.network, addr |-> a.str]
    ELSE [err |-> "unsupported transport protocol", network |-> <<>>, addr |-> <<>>]

\* the certificate field read as a certificate from CertFieldMin
\* characters on
HandshakeCert_MinInclusive(parts, rootCAs) ==
    IF Len(parts) >= 6 /\ Len(parts[6]) >= CertFieldMin
    THEN LET asn1 == DecodeCertField(parts[6])
         IN IF asn1.err \/ ParseCertificate(asn1.bytes).err
            THEN [err |-> "failed to parse certificate", rootCAs |-> rootCAs]
            ELSE [err |-> "none", rootCAs |-> {ParseCertificate(asn1.bytes).cert}]
    ELSE [err |-> "none", rootCAs |-> rootCAs]

\* lines 223-245: the certificate field; rootCAs is the RootCAs of the TLS
\* configuration before the line is read
HandshakeCert(parts, rootCAs) ==
    IF Len(parts) >= 6 /\ Len(parts[6]) > CertFieldMin
    THEN LET asn1 == DecodeCertField(parts[6])
         IN IF asn1.err \/ ParseCertificate(asn1.bytes).err
            THEN [err |-> "failed to parse certificate", rootCAs |-> rootCAs]
            ELSE [err |-> "none", rootCAs |-> {ParseCertificate(asn1.bytes).cert}]
    ELSE [err |-> "none", rootCAs |-> rootCAs]

\* The case "line := <-stdoutCh" of New.  protoVersions is
\* ClientConfig.ProtoVersions.  err is "none" when New goes on to return
\* the handle.
ParseHandshake(rawLine, protoVersions, rootCAs) ==
    LET line == TrimSpace(rawLine)
        parts == SplitN(line, "|", 6)
        none == [err |-> "none", protoVersion |-> 0, cv |-> 0,
                 network |-> <<>>, addr |-> <<>>, rootCAs |-> rootCAs]
        fail(e) == [none EXCEPT !.err = e]
    IN IF HandshakeHeaderError(parts) # "none" THEN fail(HandshakeHeaderError(parts))
       ELSE LET v == HandshakeVersion(parts, protoVersions)
                a == HandshakeAddr(parts)
                c == HandshakeCert(parts, rootCAs)
            IN IF v.err # "none" THEN fail(v.err)
               ELSE IF a.err # "none" THEN fail(a.err)
               ELSE IF c.err # "none" THEN fail(c.err)
               ELSE [err |-> "none", protoVersion |-> v.version, cv |-> v.cv,
                     network |-> a.network, addr |-> a.addr, rootCAs |-> c.rootCAs]

----------------------------------------------------------------------------
(* New (plugin.go) *)

\* the client factory registered for version v: a ClientVersion value
ClientFactory(v) == 100 + v

\* the TLS configuration a caller supplies in ClientConfig.TLSConfig.  New
\* keeps the pointer (lines 80 and 129), so for such a caller the
\* tlsConfig of the handle is the caller's own object.
CallerTLS == [cert |-> <<"c", "a", "l", "l", "e", "r">>, ServerName |-> "plugin.example",
              RootCAs |-> {}]

\* StartTimeout after setDefaults, in seconds
OneMinute == 60

\* setDefaults leaving a zero StartTimeout as it is
setDefaults_KeepsZero(cfg) == cfg

\* ClientConfig.setDefaults
setDefaults(cfg) == [cfg EXCEPT !.StartTimeout = IF @ = 0 THEN OneMinute ELSE @]

\* the calls of Client on the handle: their number, and of the last one the
\* events it emitted, what it dialed and what it returned
NoCall == [n |-> 0, events |-> <<>>, dialed |-> <<>>,
           ret |-> [protoVersion |-> 0, client |-> <<>>, err |-> "none"]]

\* New, the handle it returns, and the tasks it starts.  hist holds the
\* events given to the ClientTracer and the closing of the exit channel,
\* in order; cmdEnv is config.Cmd.Env.
CliIdle == [pc |-> "idle", result |-> "none", err |-> "none", killIssued |-> FALSE,
            autoTLS |-> FALSE,
            tlsConfig |-> [cert |-> <<>>, ServerName |-> "", RootCAs |-> {}],
            protoVersion |-> 0, cv |-> 0, network |-> <<>>, addr |-> <<>>,
            lineRead |-> FALSE, line |-> <<>>,
            hist |-> <<>>, reaper |-> "none", exitClosed |-> FALSE,
            stdoutCh |-> "none", cmdEnv |-> <<>>,
            close |-> [pc |-> "none", result |-> "none"],
            call |-> NoCall]

\* a call of a slot of the ClientTracer, if the context has a tracer
Trace(hist, name, arg) == IF cliCfg.Traced THEN Append(hist, Event(name, arg)) ELSE hist

\* the deferred function of lines 140-150 without its call of Kill
KillChild_NoKill == UNCHANGED <<proc, srv, rpc>>

\* the call of ret.process.Kill() in hist, with the state the child is in
Killed(hist) == Append(hist, Event("Kill", proc))

\* ret.process.Kill(): the child process ends, wherever it is
KillChild ==
    /\ proc' = IF proc = "running" THEN "exited" ELSE proc
    /\ srv' = IF proc = "running" /\ childKind = "serve"
              THEN [SrvIdle EXCEPT !.pc = "killed", !.fs = srv.fs,
                                   !.listener = [srv.listener EXCEPT !.open = FALSE]]
              ELSE srv
    /\ rpc' = IF proc = "running" /\ rpc # "none" THEN "stopped" ELSE rpc

\* lines 52-130: the checks of the configuration, the certificate of the
\* client, the environment of the child, the stdout pipe and Cmd.Start
NewCall ==
    /\ launcher = "client"
    /\ cli.pc = "idle"
    /\ IF DOMAIN cliCfg.ProtoVersions = {} \/ cliCfg.CookieKey = ""
          \/ cliCfg.CookieValue = <<>> \/ cliCfg.CmdNil
       THEN /\ cli' = [cli EXCEPT !.pc = "returned", !.result = "error",
                                  !.err = "ConfigError"]
            /\ UNCHANGED <<proc, srvEnv, srv>>
       ELSE \E order \in Orders(DOMAIN cliCfg.ProtoVersions), k \in ClientCertIds,
               pipeOk \in BOOLEAN, startOk \in BOOLEAN :
              LET auto == cliCfg.TLSConfig = "nil"
                  tlsConfig == IF auto
                               THEN [cert |-> CertDER(k), ServerName |-> "localhost",
                                     RootCAs |-> {}]
                               ELSE CallerTLS
                  env == CmdEnv(cliCfg, order, PEMEncode(CertDER(k)), ctxEnv)
              IN /\ ~auto => k = 0
                 /\ ~pipeOk => ~startOk
                 /\ IF ~pipeOk
                    THEN /\ cli' = [cli EXCEPT !.pc = "returned", !.result = "error",
                                               !.err = "PipeError", !.cmdEnv = env]
                         /\ UNCHANGED <<proc, srvEnv, srv>>
                    ELSE IF ~startOk
                    THEN /\ cli' = [cli EXCEPT !.pc = "returned", !.result = "error",
                                       !.err = "SpawnError", !.cmdEnv = env,
                                       !.hist = Trace(Trace(@, "ProcessStart", <<>>),
                                                      "ProcessStartFailed", <<>>)]
                         /\ UNCHANGED <<proc, srvEnv, srv>>
                    ELSE /\ cli' = [cli EXCEPT !.pc = "select", !.autoTLS = auto,
                                       !.tlsConfig = tlsConfig, !.cmdEnv = env,
                                       !.reaper = "waiting", !.stdoutCh = "open",
                                       !.hist = Trace(Trace(@, "ProcessStart", <<>>),
                                                      "ProcessRunning", <<>>)]
                         /\ proc' = "running"
                         /\ srvEnv' = EnvOf(env)
                         /\ srv' = IF childKind = "serve"
                                   THEN [srv EXCEPT !.pc = "start"] ELSE srv
    /\ UNCHANGED <<launcher, childKind, childOut, srvCfg, srvTracer, stdio,
                   srvHist, ctxErr, rpc, cliCfg, ctxEnv>>

\* the reaper with close(exit) before the call of ProcessExited as well
ReaperWait_ClosesFirst ==
    /\ cli.reaper = "waiting"
    /\ proc = "exited"
    /\ cli' = [cli EXCEPT !.reaper = "emitted", !.exitClosed = TRUE,
                          !.hist = Trace(Append(@, Event("exitClosed", <<>>)),
                                         "ProcessExited", <<>>)]
    /\ UNCHANGED <<sharedVars, srvVars, cliCfg, ctxEnv>>

\* lines 132-138, the reaper: ret.process.Wait() returns, once the child
\* has ended, and ProcessExited is emitted
ReaperWait ==
    /\ cli.reaper = "waiting"
    /\ proc = "exited"
    /\ cli' = [cli EXCEPT !.reaper = "emitted",
                          !.hist = Trace(@, "ProcessExited", <<>>)]
    /\ UNCHANGED <<sharedVars, srvVars, cliCfg, ctxEnv>>

\* line 137, the reaper: close(exit)
ReaperClose ==
    /\ cli.reaper = "emitted"
    /\ cli' = [cli EXCEPT !.reaper = "done", !.exitClosed = TRUE,
                          !.hist = Append(@, Event("exitClosed", <<>>))]
    /\ UNCHANGED <<sharedVars, srvVars, cliCfg, ctxEnv>>

\* lines 155-162, the scanner: at the end of the child's output sc.Scan()
\* returns false and the channel of lines is closed
ScannerClose ==
    /\ cli.stdoutCh = "open"
    /\ proc = "exited"
    /\ childOut = <<>>
    /\ cli' = [cli EXCEPT !.stdoutCh = "closed"]
    /\ UNCHANGED <<sharedVars, srvVars, cliCfg, ctxEnv>>

\* New returns the error e; the deferred function kills the child
NewFail(e) ==
    /\ cli' = [cli EXCEPT !.pc = "returned", !.result = "error", !.err = e,
                          !.killIssued = TRUE,
                          !.hist = Killed(IF e = "timeout"
                                          THEN Trace(@, "ServerStartTimeout",
                                                     setDefaults(cliCfg).StartTimeout)
                                          ELSE @)]
    /\ KillChild

\* lines 164-170: the start timeout elapses
NewTimeout ==
    /\ cli.pc = "select"
    /\ NewFail("timeout")
    /\ UNCHANGED <<launcher, childKind, childOut, srvEnv, srvCfg, srvTracer,
                   stdio, srvHist, ctxErr, cliCfg, ctxEnv>>

\* lines 171-172: the exit channel is closed
NewExited ==
    /\ cli.pc = "select"
    /\ cli.exitClosed
    /\ NewFail("exited without completing handshake")
    /\ UNCHANGED <<launcher, childKind, childOut, srvEnv, srvCfg, srvTracer,
                   stdio, srvHist, ctxErr, cliCfg, ctxEnv>>

\* bufio.Scanner with ScanLines: the first line of the stream out, without
\* its end-of-line marker; at the end of the stream a last line needs none
HasLine(out, eof) == IndexOf(out, "\n") # 0 \/ (eof /\ out # <<>>)

DropCR(s) == IF s # <<>> /\ s[Len(s)] = "\r" THEN SubSeq(s, 1, Len(s) - 1) ELSE s

FirstLine(out) == IF IndexOf(out, "\n") # 0
                  THEN DropCR(SubSeq(out, 1, IndexOf(out, "\n") - 1))
                  ELSE DropCR(out)

RestAfterLine(out) == IF IndexOf(out, "\n") # 0
                      THEN SubSeq(out, IndexOf(out, "\n") + 1, Len(out))
                      ELSE <<>>

\* lines 173-256: the receive from stdoutCh succeeds, with a line the
\* scanner sends or, once the scanner has closed the channel, with the
\* empty string
NewLine ==
    /\ cli.pc = "select"
    /\ HasLine(childOut, proc = "exited") \/ cli.stdoutCh = "closed"
    /\ LET line == IF cli.stdoutCh = "closed" THEN <<>> ELSE FirstLine(childOut)
           h == ParseHandshake(line, cliCfg.ProtoVersions, cli.tlsConfig.RootCAs)
       IN /\ childOut' = RestAfterLine(childOut)
          /\ IF h.err # "none"
             THEN /\ cli' = [cli EXCEPT !.pc = "returned", !.result = "error",
                                        !.err = h.err, !.killIssued = TRUE,
                                        !.lineRead = TRUE, !.line = line,
                                        !.hist = Killed(@)]
                  /\ KillChild
             ELSE /\ cli' = [cli EXCEPT !.pc = "returned", !.result = "handle",
                                !.protoVersion = h.protoVersion,
                                !.cv = h.cv, !.network = h.network,
                                !.addr = h.addr,
                                !.tlsConfig.RootCAs = h.rootCAs,
                                !.lineRead = TRUE, !.line = line,
                                !.hist = Trace(Trace(@, "TLSConfig", cli.autoTLS),
                                               "ServerStarted",
                                               <<h.addr, h.protoVersion>>)]
                  /\ UNCHANGED <<proc, srv, rpc>>
    /\ UNCHANGED <<launcher, childKind, srvEnv, srvCfg, srvTracer,
                   stdio, srvHist, ctxErr, cliCfg, ctxEnv>>

----------------------------------------------------------------------------
(* Client and Close (plugin.go) *)

\* the number of calls of Client on one handle
MaxClientCalls == 2

\* the client object that the ClientProxy of the factory cv returns for a
\* connection to addr
ClientProxy(cv, network, addr) == <<cv, network, addr>>

\* Client with the target string given to grpc.DialContext as what is dialed
ClientResult_DialsTarget(p, dialOk, proxyOk) ==
    IF ~dialOk
    THEN [events |-> <<Event("Connect", p.addr), Event("ConnectFailed", p.addr)>>,
          dialed |-> <<>>,
          ret |-> [protoVersion |-> 0, client |-> <<>>, err |-> "failed to connect"]]
    ELSE IF ~proxyOk
    THEN [events |-> <<Event("Connect", p.addr)>>,
          dialed |-> <<>>,
          ret |-> [protoVersion |-> 0, client |-> <<>>,
                   err |-> "failed to create client proxy"]]
    ELSE [events |-> <<Event("Connect", p.addr), Event("Connected", p.addr)>>,
          dialed |-> <<>>,
          ret |-> [protoVersion |-> p.protoVersion,
                   client |-> ClientProxy(p.cv, p.network, p.addr), err |-> "none"]]

\* lines 265-300: what Client does with the handle p; dialOk and proxyOk
\* are the outcomes of grpc.DialContext and of ClientProxy.  events are
\* the calls of the tracer's slots, dialed is what the dialer of lines
\* 278-281 dials.
ClientResult(p, dialOk, proxyOk) ==
    IF ~dialOk
    THEN [events |-> <<Event("Connect", p.addr), Event("ConnectFailed", p.addr)>>,
          dialed |-> <<p.network, p.addr>>,
          ret |-> [protoVersion |-> 0, client |-> <<>>, err |-> "failed to connect"]]
    ELSE IF ~proxyOk
    THEN [events |-> <<Event("Connect", p.addr)>>,
          dialed |-> <<p.network, p.addr>>,
          ret |-> [protoVersion |-> 0, client |-> <<>>,
                   err |-> "failed to create client proxy"]]
    ELSE [events |-> <<Event("Connect", p.addr), Event("Connected", p.addr)>>,
          dialed |-> <<p.network, p.addr>>,
          ret |-> [protoVersion |-> p.protoVersion,
                   client |-> ClientProxy(p.cv, p.network, p.addr), err |-> "none"]]

\* a call of Client on the handle New returned
Client ==
    /\ cli.pc = "returned" /\ cli.result = "handle"
    /\ cli.call.n < MaxClientCalls
    /\ \E dialOk \in BOOLEAN, proxyOk \in BOOLEAN :
         LET r == ClientResult(cli, dialOk, proxyOk)
             ev == IF cliCfg.Traced THEN r.events ELSE <<>>
         IN cli' = [cli EXCEPT !.call = [n |-> cli.call.n + 1, events |-> ev,
                                         dialed |-> r.dialed, ret |-> r.ret],
                               !.hist = @ \o ev]
    /\ UNCHANGED <<sharedVars, srvVars, cliCfg, ctxEnv>>

\* lines 307-318: Close emits Closing and calls Kill, which fails once
\* Wait has returned in the reaper; Close then returns the error
CloseCall ==
    /\ cli.pc = "returned" /\ cli.result = "handle"
    /\ cli.close.pc = "none"
    /\ IF cli.reaper \in {"emitted", "done"}
       THEN /\ cli' = [cli EXCEPT !.close = [pc |-> "returned",
                                             result |-> "failed to kill"],
                                  !.hist = Killed(Trace(@, "Closing", <<>>))]
            /\ UNCHANGED <<proc, srv, rpc>>
       ELSE /\ cli' = [cli EXCEPT !.close = [pc |-> "wait", result |-> "none"],
                                  !.hist = Killed(Trace(@, "Closing", <<>>))]
            /\ KillChild
    /\ UNCHANGED <<launcher, childKind, childOut, srvEnv, srvCfg, srvTracer,
                   stdio, srvHist, ctxErr, cliCfg, ctxEnv>>

\* lines 320-322: the receive from the exit channel, and the return
CloseWait ==
    /\ cli.close.pc = "wait"
    /\ cli.exitClosed
    /\ cli' = [cli EXCEPT !.close = [pc |-> "returned", result |-> "nil"]]
    /\ UNCHANGED <<sharedVars, srvVars, cliCfg, ctxEnv>>

----------------------------------------------------------------------------
(* A child that is not a Serve-based plugin *)

Fields(list) == Join(list, sPipe)

sOne == <<"1">>
sTwo == <<"2">>
sAddr == TcpListenAddr
sPath == UnixSocketPath

\* a certificate field that is base64 of bytes that are no certificate
NotACert == [i \in 1..(MinCertLen + 1) |-> (i * 5) % 256]

\* a certificate field with characters outside the base64 alphabet
Garbage == [i \in 1..(CertFieldMin + 2) |-> "!"]

\* a certificate field of base64 characters that is just not long enough
ShortField == [i \in 1..CertFieldMin |-> "A"]

CertFields ==
    {StdEncodeToString(CertDER(k)) : k \in CertIds}
    \cup {RawStdEncodeToString(CertDER(k)) : k \in CertIds}
    \cup {RawStdEncodeToString(NotACert), Garbage, <<"a", "|", "b">>, <<>>,
          ShortField}

\* the lines such a child may write to its stdout
OtherLines ==
    {Fields(<<sOne, Itoa(v), sUnix, sPath, sGrpc>>) : v \in Versions}
    \cup {Fields(<<sOne, Itoa(v), sTcp, sAddr, sGrpc, <<>> >>) : v \in Versions}
    \cup {Fields(<<sOne, sOne, sUnix, sPath, sGrpc, c>>) : c \in CertFields}
    \cup {Fields(<<sTwo, sOne, sTcp, sAddr, sGrpc, <<>> >>),
          Fields(<<sTwo, sOne, sTcp, sAddr, <<"n", "e", "t">> >>),
          Fields(<<sTwo, sOne, sTcp, sAddr>>),
          Fields(<<sOne, sOne, sTcp, sAddr>>),
          <<>>,
          Fields(<<sOne, sOne, sTcp, sAddr, <<"n", "e", "t">>, <<>> >>),
          Fields(<<sOne, <<"x">>, sTcp, sAddr, sGrpc>>),
          Fields(<<sOne, <<"+", "1">>, sTcp, sAddr, sGrpc>>),
          Fields(<<sOne, sOne, <<"u", "d", "p">>, sAddr, sGrpc>>),
          Fields(<<sOne, sOne, sTcp, <<"h", "o", "s", "t">>, sGrpc>>),
          Fields(<<sOne, sOne, sTcp, <<":", "0", "8", "0">>, sGrpc>>),
          <<" ">> \o Fields(<<sOne, sOne, sUnix, sPath, sGrpc>>) \o <<" ", "\r">>}

\* the child writes a line to its stdout
OtherWrite ==
    /\ childKind = "other"
    /\ proc = "running"
    /\ srv.pc = "other"
    /\ \E line \in OtherLines : childOut' = childOut \o line \o <<"\n">>
    /\ srv' = [srv EXCEPT !.pc = "otherDone"]
    /\ UNCHANGED <<launcher, childKind, proc, srvEnv, srvCfg, srvTracer, stdio,
                   srvHist, ctxErr, rpc, cliVars>>

\* the child exits
OtherExit ==
    /\ childKind = "other"
    /\ proc = "running"
    /\ proc' = "exited"
    /\ UNCHANGED <<launcher, childKind, childOut, srvVars, cliVars>>

----------------------------------------------------------------------------
(* Initial states *)

Tracer(invalid, failed, listening, tlsc) ==
    [InvalidClientHandshakeVersion |-> invalid, VersionNegotationFailed |-> failed,
     Listening |-> listening, TLSConfig |-> tlsc,
     InterruptIgnored |-> listening, GRPCServeError |-> listening]

NoopTracer == Tracer(FALSE, FALSE, FALSE, FALSE)
FullTracer == Tracer(TRUE, TRUE, TRUE, TRUE)

\* no tracer in the context (noopServerTrace), a tracer with every slot
\* set, and a tracer with only VersionNegotationFailed set
Tracers == {NoopTracer, FullTracer, Tracer(FALSE, TRUE, FALSE, FALSE)}

\* the elements a launcher may put in PLUGIN_PROTOCOL_VERSIONS
VersionTokens == {<<>>, <<"x">>} \cup {Itoa(v) : v \in 1..MaxVersion}

\* values of PLUGIN_PROTOCOL_VERSIONS: one or two elements
VersionLists == VersionTokens \cup
                {a \o sComma \o b : a \in VersionTokens, b \in VersionTokens}

ServerConfig(key, value, keys, tlsFn) ==
    [CookieKey |-> key, CookieValue |-> value, ProtoVersions |-> keys,
     TLSConfig |-> tlsFn, NoSignalHandlers |-> FALSE]

Env(cookie, versions, transports, clientCert) ==
    [n \in EnvNames |->
        IF n = CookieName THEN cookie
        ELSE IF n = "PLUGIN_PROTOCOL_VERSIONS" THEN versions
        ELSE IF n = "PLUGIN_TRANSPORTS" THEN transports
        ELSE clientCert]

\* a ClientConfig with StartTimeout left at zero, with a context that has
\* a ClientTracer with every slot set
ClientConfig(key, value, keys, tlsConfig, cmdNil) ==
    [CookieKey |-> key, CookieValue |-> value,
     ProtoVersions |-> [v \in keys |-> ClientFactory(v)],
     TLSConfig |-> tlsConfig, CmdNil |-> cmdNil,
     StartTimeout |-> 0, Traced |-> TRUE, MinPort |-> 0, MaxPort |-> 0]

ClientConfigs ==
    {ClientConfig(CookieName, CookieVal, keys, t, FALSE) :
        keys \in SUBSET Versions, t \in {"nil", "caller"}}
    \cup {ClientConfig("", CookieVal, {1}, "nil", FALSE),
          ClientConfig(CookieName, <<>>, {1}, "nil", FALSE),
          ClientConfig(CookieName, CookieVal, {1}, "nil", TRUE),
          [ClientConfig(CookieName, CookieVal, {1}, "nil", FALSE)
              EXCEPT !.StartTimeout = 5],
          [ClientConfig(CookieName, CookieVal, {1}, "nil", FALSE)
              EXCEPT !.Traced = FALSE]}

\* environment snapshots of the client's context: nothing that matters to
\* the protocol; PLUGIN_TRANSPORTS set; and the environment of a client
\* that is itself a plugin, which has PLUGIN_PROTOCOL_VERSIONS of its own
CtxEnvs == {<<>>,
            << <<"PLUGIN_TRANSPORTS", sUnixTcp>> >>,
            << <<"PLUGIN_PROTOCOL_VERSIONS", Itoa(MaxVersion)>> >>}

InitCommon ==
    /\ childOut = <<>>
    /\ stdio = "real"
    /\ srvHist = <<>>
    /\ ctxErr = "none"
    /\ rpc = "none"
    /\ cli = CliIdle

\* A plugin process started by something other than New, with any
\* environment.  Three families of runs: any cookie configuration and
\* cookie; any version list, version map and tracer; any transport list,
\* client certificate and TLS function.
\* a PLUGIN_CLIENT_CERT that holds no certificate
BadPEM == PEMEncode(<<1, 2, 3>>)

InitServe ==
    /\ InitCommon
    /\ launcher = "direct"
    /\ childKind = "serve"
    /\ proc = "running"
    /\ \E key \in {"", CookieName}, value \in {<<>>, CookieVal},
          cookie \in {<<>>, CookieVal, <<"x">>}, versions \in VersionLists,
          keys \in SUBSET Versions, transports \in {<<>>, sUnixTcp},
          clientCert \in {<<>>, PEMEncode(CertDER(0)), BadPEM},
          tlsFn \in {"nil", "fn"},
          tracer \in Tracers :
         /\ \/ /\ versions = <<"1">>
               /\ tracer = FullTracer
               /\ transports = <<>> /\ clientCert = PEMEncode(CertDER(0))
               /\ tlsFn = "nil"
            \/ /\ key # "" /\ value # <<>> /\ cookie = value
               /\ transports = <<>> /\ clientCert = PEMEncode(CertDER(0))
               /\ tlsFn = "nil"
            \/ /\ key # "" /\ value # <<>> /\ cookie = value
               /\ versions = <<"1">> /\ keys = {1}
               /\ tracer = FullTracer
         /\ srvCfg = ServerConfig(key, value, keys, tlsFn)
         /\ srvEnv = Env(cookie, versions, transports, clientCert)
         /\ srvTracer = tracer
    /\ srv = [SrvIdle EXCEPT !.pc = "start"]
    /\ cliCfg = ClientConfig(CookieName, CookieVal, {1}, "nil", FALSE)
    /\ ctxEnv = <<>>

NextServe ==
    \/ ServeCookie \/ ServeNegotiate \/ ServeListen \/ ServeTLS
    \/ ServeRedirect \/ ServeInit \/ ServeSignals \/ ServeHandshake
    \/ ServeGo \/ ServeListening \/ ServeWait
    \/ GrpcServe \/ GrpcServeReturn \/ CtxDone

\* Serve in a plugin process with any environment
SpecServe == InitServe /\ [][NextServe]_vars

\* A client about to call New on a program that is not a Serve-based plugin
InitNew ==
    /\ InitCommon
    /\ launcher = "client"
    /\ childKind = "other"
    /\ proc = "none"
    /\ srvEnv = Env(<<>>, <<>>, <<>>, <<>>)
    /\ srvCfg = ServerConfig(CookieName, CookieVal, {}, "nil")
    /\ srvTracer = NoopTracer
    /\ srv = [SrvIdle EXCEPT !.pc = "other"]
    /\ cliCfg \in ClientConfigs
    /\ ctxEnv = <<>>

NextNew ==
    \/ NewCall \/ NewTimeout \/ NewExited \/ NewLine
    \/ ReaperWait \/ ReaperClose \/ ScannerClose
    \/ OtherWrite \/ OtherExit

\* a certificate that is not the client's: the PLUGIN_CLIENT_CERT a client
\* has in its own environment when it is itself a plugin
ForeignPEM == PEMEncode(CertDER(2))

\* environment snapshots of the client's context: each of the names New
\* sets can be in it already
CtxEnvsNamed ==
    CtxEnvs \cup {<< <<CookieName, <<"x">> >> >>,
                  << <<"PLUGIN_MIN_PORT", <<"1">> >>, <<"PLUGIN_MAX_PORT", <<"2">> >> >>,
                  << <<"PLUGIN_CLIENT_CERT", ForeignPEM>> >>}

\* New with automatic TLS or with a TLS configuration of the caller, in a
\* context with any environment snapshot
InitEnv ==
    /\ InitCommon
    /\ launcher = "client"
    /\ childKind = "other"
    /\ proc = "none"
    /\ srvEnv = Env(<<>>, <<>>, <<>>, <<>>)
    /\ srvCfg = ServerConfig(CookieName, CookieVal, {}, "nil")
    /\ srvTracer = NoopTracer
    /\ srv = [SrvIdle EXCEPT !.pc = "other"]
    /\ cliCfg \in {ClientConfig(CookieName, CookieVal, {1}, t, FALSE) :
                      t \in {"nil", "caller"}}
    /\ ctxEnv \in CtxEnvsNamed

\* New and the environment it gives the child
SpecEnv == InitEnv /\ [][NextNew]_vars

\* A plugin process whose environment lets Serve go on to serve: with or
\* without PLUGIN_TRANSPORTS, with or without a tracer, with or without
\* the handler of interrupts
InitRun ==
    /\ InitCommon
    /\ launcher = "direct"
    /\ childKind = "serve"
    /\ proc = "running"
    /\ \E transports \in {<<>>, sUnixTcp}, tracer \in {NoopTracer, FullTracer},
          noSig \in BOOLEAN :
         /\ srvCfg = [ServerConfig(CookieName, CookieVal, {1}, "nil")
                         EXCEPT !.NoSignalHandlers = noSig]
         /\ srvEnv = Env(CookieVal, <<"1">>, transports, PEMEncode(CertDER(0)))
         /\ srvTracer = tracer
    /\ srv = [SrvIdle EXCEPT !.pc = "start"]
    /\ cliCfg = ClientConfig(CookieName, CookieVal, {1}, "nil", FALSE)
    /\ ctxEnv = <<>>

\* Serve, the context given to it, the RPC server and its requests
NextRun ==
    \/ NextServe
    \/ ServePanic \/ Shutdown \/ RpcAccept \/ RpcComplete

\* Serve while the client uses the RPC server
SpecRun == InitRun /\ [][NextRun]_vars

\* Serve, the Shutdown RPC and the signals delivered to the process
NextSignals ==
    \/ NextServe
    \/ Shutdown \/ Interrupt \/ SigWatcherRecv \/ SigWatcherExit

\* Serve in a process that gets interrupt signals
SpecSignals == InitRun /\ [][NextSignals]_vars

\* Serve and the writes of the plugin's code
NextStdio ==
    \/ NextServe
    \/ ServePanic \/ PluginWrite

\* Serve in a process that writes to its standard output and error
SpecStdio == InitRun /\ [][NextStdio]_vars

\* the steps of Serve and of the goroutine it starts that go on by
\* themselves; when the context becomes done, when Accept fails and what
\* the plugin's code does are up to their surroundings
ServeSteps ==
    \/ ServeCookie \/ ServeNegotiate \/ ServeListen
    \/ ServeRedirect \/ ServeInit \/ ServeSignals \/ ServeHandshake
    \/ ServeGo \/ ServeListening \/ ServeWait \/ GrpcServe

\* a plugin without a tracer, with the handler of interrupts
InitPipes ==
    /\ InitRun
    /\ srvTracer = NoopTracer
    /\ ~srvCfg.NoSignalHandlers
    /\ Getenv(srvEnv, "PLUGIN_TRANSPORTS") = <<>>

\* Serve, its context and the writes of the plugin's code
NextPipes ==
    \/ ServeSteps \/ ServeTLS
    \/ CtxDone \/ PluginWrite

\* Serve in a process that writes to its standard output and error, where
\* Serve and its goroutine are scheduled: no step of theirs that can be
\* taken waits forever.  ServeTLS can be taken whenever Serve is at that
\* step, so its fairness is that Serve does not stay there.
SpecPipes ==
    /\ InitPipes /\ [][NextPipes]_vars
    /\ WF_vars(ServeSteps)
    /\ []<>(srv.pc # "tls")

\* values of XDG_RUNTIME_DIR: not set, an absolute path, a relative path
RuntimeDirs == {<<>>, <<"/", "r">>, <<"r">>}

\* a file of another program in the directory XDG_RUNTIME_DIR names
OtherFile(runtimeDir) == runtimeDir \o <<"/", "o">>

\* A plugin process with any XDG_RUNTIME_DIR in its environment; the
\* directory it names exists and holds a file of another program
InitFiles ==
    /\ InitCommon
    /\ launcher = "direct"
    /\ childKind = "serve"
    /\ proc = "running"
    /\ srvCfg = ServerConfig(CookieName, CookieVal, {1}, "nil")
    /\ srvTracer = NoopTracer
    /\ \E runtimeDir \in RuntimeDirs :
         /\ srvEnv = Env(CookieVal, <<"1">>, <<>>, PEMEncode(CertDER(0)))
                        @@ ("XDG_RUNTIME_DIR" :> runtimeDir)
         /\ srv = [SrvIdle EXCEPT !.pc = "start",
                       !.fs = IF runtimeDir = <<>> THEN {}
                              ELSE {runtimeDir, OtherFile(runtimeDir)}]
    /\ cliCfg = ClientConfig(CookieName, CookieVal, {1}, "nil", FALSE)
    /\ ctxEnv = <<>>

\* Serve and the RPC server, whose closing of the listener takes two steps
NextFiles ==
    \/ NextServe
    \/ ServePanic \/ GrpcListenerClose

\* Serve and the files of its UNIX socket
SpecFiles == InitFiles /\ [][NextFiles]_vars

\* the names a launcher may put in PLUGIN_TRANSPORTS
TransportTokens == {sUnix, sTcp, <<"n", "p">>, <<" ", "t", "c", "p">>}

\* values of PLUGIN_TRANSPORTS: unset, or one or two names
TransportLists ==
    {<<>>} \cup TransportTokens
    \cup {a \o sComma \o b : a \in TransportTokens \cup {<<>>}, b \in TransportTokens}

\* A plugin process with any PLUGIN_TRANSPORTS in its environment
InitListen ==
    /\ InitCommon
    /\ launcher = "direct"
    /\ childKind = "serve"
    /\ proc = "running"
    /\ srvCfg = ServerConfig(CookieName, CookieVal, {1}, "nil")
    /\ \E transports \in TransportLists :
         srvEnv = Env(CookieVal, <<"1">>, transports, PEMEncode(CertDER(0)))
    /\ srvTracer = NoopTracer
    /\ srv = [SrvIdle EXCEPT !.pc = "start"]
    /\ cliCfg = ClientConfig(CookieName, CookieVal, {1}, "nil", FALSE)
    /\ ctxEnv = <<>>

\* Serve with any list of transports
SpecListen == InitListen /\ [][NextServe]_vars

\* New with a child that writes any line
SpecNew == InitNew /\ [][NextNew]_vars

\* New with the timer of time.After(config.StartTimeout): the timer fires
\* once the timeout has elapsed, and the select of New, which waits for
\* nothing else, then takes a case that is ready
SpecNewTimer == SpecNew /\ WF_vars(NewTimeout)

\* New with its two goroutines scheduled: a goroutine that can take a step
\* takes it
SpecNewTasks ==
    SpecNew /\ WF_vars(ReaperWait) /\ WF_vars(ReaperClose) /\ WF_vars(ScannerClose)

\* A client about to call New, with automatic TLS or with its own TLS
\* configuration, with a tracer or without
InitHandle ==
    /\ InitCommon
    /\ launcher = "client"
    /\ childKind = "other"
    /\ proc = "none"
    /\ srvEnv = Env(<<>>, <<>>, <<>>, <<>>)
    /\ srvCfg = ServerConfig(CookieName, CookieVal, {}, "nil")
    /\ srvTracer = NoopTracer
    /\ srv = [SrvIdle EXCEPT !.pc = "other"]
    /\ cliCfg \in {ClientConfig(CookieName, CookieVal, {1}, "nil", FALSE),
                   ClientConfig(CookieName, CookieVal, {1}, "caller", FALSE),
                   [ClientConfig(CookieName, CookieVal, {1}, "nil", FALSE)
                       EXCEPT !.Traced = FALSE]}
    /\ ctxEnv = <<>>

NextHandle ==
    \/ NewCall \/ NewTimeout \/ NewExited \/ NewLine
    \/ ReaperWait \/ ReaperClose \/ ScannerClose
    \/ OtherWrite \/ OtherExit
    \/ Client \/ CloseCall \/ CloseWait

\* New, and the use of the handle it returns: calls of Client and one of
\* Close, in any order
SpecHandle == InitHandle /\ [][NextHandle]_vars

\* A client about to call New on a plugin that calls Serve: a client with
\* automatic TLS and a plugin without a TLS function, or a client with its
\* own TLS configuration and a plugin with a TLS function
InitE2E ==
    /\ InitCommon
    /\ launcher = "client"
    /\ childKind = "serve"
    /\ proc = "none"
    /\ srvEnv = Env(<<>>, <<>>, <<>>, <<>>)
    /\ \E ckeys \in (SUBSET (1..MaxVersion)) \ {{}}, skeys \in SUBSET (1..MaxVersion),
          t \in {"nil", "caller"} :
         /\ cliCfg = ClientConfig(CookieName, CookieVal, ckeys, t, FALSE)
         /\ srvCfg = ServerConfig(CookieName, CookieVal, skeys,
                                  IF t = "nil" THEN "nil" ELSE "fn")
    /\ srvTracer = FullTracer
    /\ srv = SrvIdle
    /\ ctxEnv \in CtxEnvs

NextE2E ==
    \/ ServeCookie \/ ServeNegotiate \/ ServeListen \/ ServeTLS
    \/ ServeRedirect \/ ServeInit \/ ServeSignals \/ ServeHandshake
    \/ ServeGo \/ ServeListening \/ GrpcServe
    \/ NewCall \/ NewTimeout \/ NewExited \/ NewLine
    \/ ReaperWait \/ ReaperClose \/ ScannerClose

\* New and the Serve of the plugin it starts, as long as the context
\* given to Serve is not done and the RPC server keeps serving
SpecE2E == InitE2E /\ [][NextE2E]_vars

----------------------------------------------------------------------------
(* Properties of Serve *)

\* the Handshake configuration passes the check of lines 44-46
ValidHandshakeConfig == srvCfg.CookieKey # "" /\ srvCfg.CookieValue # <<>>

CookieMismatch ==
    ValidHandshakeConfig /\ Getenv(srvEnv, srvCfg.CookieKey) # srvCfg.CookieValue

HistHas(name) == \E i \in 1..Len(srvHist) : srvHist[i].ev = name

\* C1: with a valid Handshake configuration, in every environment where the
\* variable named by CookieKey differs from CookieValue (unset included),
\* Serve does nothing but return NotChildProcessError: no listener is
\* bound, no handshake line is written, os.Stdout and os.Stderr are not
\* redirected.
C1_CookieGate ==
    CookieMismatch =>
        /\ srv.pc \in {"start", "returned"}
        /\ (srv.pc = "returned" => srv.result = "NotChildProcessError")
        /\ srv.listener = NoListener
        /\ ~HistHas("bind") /\ ~HistHas("handshake") /\ ~HistHas("redirect")
        /\ childOut = <<>>
        /\ stdio = "real"

C1_Witness ==
    /\ CookieMismatch
    /\ Getenv(srvEnv, srvCfg.CookieKey) = <<"x">>
    /\ 1 \in srvCfg.ProtoVersions
    /\ srv.pc = "returned"
    /\ srv.result = "NotChildProcessError"

\* the decimal integers among the elements of PLUGIN_PROTOCOL_VERSIONS
ClientVersionStrs(env) == Split(Getenv(env, "PLUGIN_PROTOCOL_VERSIONS"), ",")

ClientVersionSet(env) ==
    {Atoi(ClientVersionStrs(env)[i]).v :
        i \in {j \in 1..Len(ClientVersionStrs(env)) : ~Atoi(ClientVersionStrs(env)[j]).err}}

Max(S) == CHOOSE x \in S : \A y \in S : y <= x

\* Serve is past the cookie check and the negotiation, and goes on
PastNegotiation ==
    srv.pc \in {"listen", "tls", "redirect", "init", "signals", "handshake",
                "go", "listening", "wait"}

\* Serve is past the cookie check and the negotiation, whatever the outcome
Negotiated ==
    /\ ValidHandshakeConfig
    /\ ~CookieMismatch
    /\ srv.pc \notin {"start", "negotiate"}

\* C2: the version Serve goes on with is max(C \cap S), for C the integers
\* of PLUGIN_PROTOCOL_VERSIONS and S the keys of ServerConfig.ProtoVersions;
\* when C \cap S is empty Serve fails with the negotiation error and no
\* listener is opened.
C2_ChosenIsMax ==
    LET common == ClientVersionSet(srvEnv) \cap srvCfg.ProtoVersions
    IN /\ PastNegotiation => (common # {} /\ srv.protoVersion = Max(common))
       /\ common = {} => (~HistHas("bind") /\ srv.listener = NoListener)
       /\ (common = {} /\ Negotiated) =>
              (srv.pc = "returned" /\ srv.result = "NegotiationError")

IsInvalidEvent(e) == e.ev = "InvalidClientHandshakeVersion"
IsFailedEvent(e) == e.ev = "VersionNegotationFailed"

\* the elements of PLUGIN_PROTOCOL_VERSIONS that are not decimal integers
RECURSIVE Malformed(_)
Malformed(vStrs) ==
    IF vStrs = <<>> THEN <<>>
    ELSE (IF Atoi(Head(vStrs)).err THEN <<Head(vStrs)>> ELSE <<>>)
         \o Malformed(Tail(vStrs))

\* C3: an element of PLUGIN_PROTOCOL_VERSIONS that is not a decimal integer
\* never is a candidate, with or without a tracer: the version Serve goes
\* on with and the list given to VersionNegotationFailed hold integers of
\* the variable only; with the InvalidClientHandshakeVersion slot set, each
\* such element is reported.
C3_MalformedSkipped ==
    /\ PastNegotiation => srv.protoVersion \in ClientVersionSet(srvEnv)
    /\ \A i \in 1..Len(srvHist) :
          IsFailedEvent(srvHist[i]) =>
              \A j \in 1..Len(srvHist[i].arg) :
                  srvHist[i].arg[j] \in ClientVersionSet(srvEnv)
    /\ (Negotiated /\ srvTracer.InvalidClientHandshakeVersion) =>
          Len(SelectSeq(srvHist, IsInvalidEvent)) = Len(Malformed(ClientVersionStrs(srvEnv)))

\* the candidates of the selection: clientVersions after the sort
Candidates ==
    SortDesc(ParseClientVersions(ClientVersionStrs(srvEnv),
                                 srvTracer.InvalidClientHandshakeVersion).versions)

Positions(name) == {i \in 1..Len(srvHist) : srvHist[i].ev = name}

Count(s, c) == Cardinality({i \in 1..Len(s) : s[i] = c})

\* C6: in every run of Serve the handshake line is written at most once,
\* and exactly once in a run that reaches serving; it is written after the
\* listener is bound and before the RPC server starts to serve on the
\* listener; the Listening event comes after the handshake line.
C6_EventOrder ==
    /\ Cardinality(Positions("handshake")) <= 1
    /\ Count(childOut, "\n") = Cardinality(Positions("handshake"))
    /\ (rpc # "none" \/ srv.pc \in {"go", "listening", "wait"}) =>
           Cardinality(Positions("handshake")) = 1
    /\ \A h \in Positions("handshake") : \E b \in Positions("bind") : b < h
    /\ \A r \in Positions("serveRPC") : \E h \in Positions("handshake") : h < r
    /\ \A l \in Positions("Listening") : \E h \in Positions("handshake") : h < l

C6_Witness ==
    /\ rpc = "serving"
    /\ Positions("bind") # {}
    /\ Positions("handshake") # {}
    /\ Positions("serveRPC") # {}
    /\ Positions("Listening") # {}

----------------------------------------------------------------------------
(* Properties of New with the plugin it starts *)

IsHandshakeEvent(e) == e.ev = "handshake"

\* C5: when the keys C of ClientConfig.ProtoVersions and the keys S of
\* ServerConfig.ProtoVersions have a version in common, the handshake line
\* the server writes advertises max(C \cap S) and a handle New returns
\* stores that version.
C5_EndToEndVersion ==
    LET common == (DOMAIN cliCfg.ProtoVersions) \cap srvCfg.ProtoVersions
    IN common # {} =>
        /\ \A i \in 1..Len(srvHist) :
              IsHandshakeEvent(srvHist[i]) =>
                  Split(srvHist[i].arg.line, "|")[2] = Itoa(Max(common))
        /\ cli.result = "handle" => cli.protoVersion = Max(common)

\* C7: the line Serve writes for a version of the client's map, a
\* transport, an address and a certificate (or none) is parsed by New into
\* the same version, transport, address and certificate, with
\* PLUGIN_TRANSPORTS set or unset in the environment of the server.
C7_RoundTrip ==
    \A i \in 1..Len(srvHist) :
        (/\ IsHandshakeEvent(srvHist[i])
         /\ srvHist[i].arg.protoVersion \in DOMAIN cliCfg.ProtoVersions
         /\ cli.lineRead) =>
            /\ cli.result = "handle"
            /\ cli.protoVersion = srvHist[i].arg.protoVersion
            /\ cli.network = srvHist[i].arg.network
            /\ cli.addr = srvHist[i].arg.addr
            /\ cli.tlsConfig.RootCAs = IF srvHist[i].arg.cert # <<>>
                                       THEN {srvHist[i].arg.cert} ELSE {}

----------------------------------------------------------------------------
(* Properties of New with any first line *)

\* the fields of the line New read, after TrimSpace
LineFields == Split(TrimSpace(cli.line), "|")

IsCertificate(d) == ~d.err /\ ~ParseCertificate(d.bytes).err

\* C8: a sixth field longer than 50 characters that is the padded or the
\* unpadded base64 of a DER certificate is accepted and the certificate
\* becomes the RootCAs; New fails on the certificate field only if neither
\* decoding yields a certificate.
C8_BothEncodings ==
    (cli.lineRead /\ Len(LineFields) = 6 /\ Len(LineFields[6]) > CertFieldMin) =>
        /\ (/\ HandshakeHeaderError(LineFields) = "none"
            /\ HandshakeVersion(LineFields, cliCfg.ProtoVersions).err = "none"
            /\ HandshakeAddr(LineFields).err = "none"
            /\ \/ IsCertificate(StdDecodeString(LineFields[6]))
               \/ IsCertificate(RawStdDecodeString(LineFields[6]))) =>
               /\ cli.result = "handle"
               /\ \/ cli.tlsConfig.RootCAs = {StdDecodeString(LineFields[6]).bytes}
                  \/ cli.tlsConfig.RootCAs = {RawStdDecodeString(LineFields[6]).bytes}
        /\ cli.err = "failed to parse certificate" =>
               /\ ~IsCertificate(StdDecodeString(LineFields[6]))
               /\ ~IsCertificate(RawStdDecodeString(LineFields[6]))

\* the line "2|1|tcp|127.0.0.1:5000|grpc|"
BadVersionLine ==
    <<"2", "|", "1", "|", "t", "c", "p", "|", "1", "2", "7", ".", "0", ".", "0",
      ".", "1", ":", "5", "0", "0", "0", "|", "g", "r", "p", "c", "|">>

\* what the claim says of a line: too few fields, then a first field that
\* is not "1", then a fifth field that is not "grpc"
Rejection(f) ==
    IF Len(f) < 5 THEN "invalid handshake message"
    ELSE IF f[1] # <<"1">> THEN "invalid handshake version"
    ELSE IF f[5] # <<"g", "r", "p", "c">> THEN "invalid RPC protocol"
    ELSE "none"

\* C9: when the first line of the child's stdout has fewer than 5 fields,
\* or a first field that is not "1", or a fifth field that is not "grpc",
\* New returns the error of the first of these that applies and no handle,
\* and the child is killed; "2|1|tcp|127.0.0.1:5000|grpc|" gets the
\* invalid-handshake-version error.
C9_HandshakeRejection ==
    cli.lineRead =>
        /\ Rejection(LineFields) # "none" =>
              /\ cli.pc = "returned"
              /\ cli.result = "error"
              /\ cli.err = Rejection(LineFields)
              /\ cli.protoVersion = 0 /\ cli.cv = 0 /\ cli.addr = <<>>
              /\ cli.killIssued
              /\ proc = "exited"
        /\ cli.line = BadVersionLine => cli.err = "invalid handshake version"

C9_Witness ==
    /\ cli.lineRead
    /\ cli.line = BadVersionLine
    /\ cli.result = "error"
    /\ cli.err = "invalid handshake version"
    /\ cli.killIssued
    /\ proc = "exited"

\* an optional sign and one or more decimal digits
IsDecimal(s) ==
    LET body == IF s # <<>> /\ s[1] \in {"+", "-"} THEN Tail(s) ELSE s
    IN body # <<>> /\ \A i \in 1..Len(body) : IsDigit(body[i])

\* C10: New returns a handle only if the second field of the line is a
\* decimal integer that is a key of ClientConfig.ProtoVersions and the
\* third field is "tcp" or "unix" with a fourth field that resolves; the
\* handle's protoVersion is that key, and its client factory is the one
\* registered for it.
C10_HandleIsValid ==
    cli.result = "handle" =>
        /\ cli.lineRead
        /\ Len(LineFields) >= 5
        /\ IsDecimal(LineFields[2])
        /\ Atoi(LineFields[2]).v \in DOMAIN cliCfg.ProtoVersions
        /\ LineFields[3] \in {sTcp, sUnix}
        /\ LineFields[3] = sTcp => ~ResolveTCPAddr(LineFields[4]).err
        /\ cli.network = LineFields[3]
        /\ cli.protoVersion = Atoi(LineFields[2]).v
        /\ cli.protoVersion \in DOMAIN cliCfg.ProtoVersions
        /\ cli.cv = cliCfg.ProtoVersions[cli.protoVersion]
        /\ cli.cv = ClientFactory(cli.protoVersion)

C10_Witness ==
    /\ cli.result = "handle"
    /\ cli.network = sTcp
    /\ cli.protoVersion = 1
    /\ cli.cv = ClientFactory(1)
    /\ Cardinality(DOMAIN cliCfg.ProtoVersions) > 1

----------------------------------------------------------------------------
(* The client's side of TLS, the failures of New and its tasks *)

\* the certificates the sixth field of the line read advertises
Advertised ==
    IF Len(LineFields) < 6 THEN {}
    ELSE {d.bytes : d \in {x \in {StdDecodeString(LineFields[6]),
                                  RawStdDecodeString(LineFields[6])} :
                           IsCertificate(x)}}

\* C11: when New is called without a TLSConfig of the caller and returns a
\* handle, the RootCAs of the handle's TLS configuration hold exactly the
\* certificate the handshake line advertises.
C11_PinsAdvertised ==
    (cli.result = "handle" /\ cli.autoTLS) =>
        /\ Advertised # {}
        /\ cli.tlsConfig.RootCAs = Advertised


----------------------------------------------------------------------------
(* The server's side of TLS *)

\* what the TLSConfig function of the ServerConfig returned, if it was called
FnReturned(r) ==
    \E i \in 1..Len(srvHist) : srvHist[i].ev = "TLSConfigFn" /\ srvHist[i].arg = r

\* Serve is past serverTLSConfig and has not returned
PastTLS ==
    srv.pc \in {"redirect", "init", "signals", "handshake", "go", "listening", "wait"}

\* Serve has failed, and has written no handshake line
FailedBeforeHandshake ==
    /\ srv.pc = "returned"
    /\ srv.result \in {"ConfigError", "NotChildProcessError", "NegotiationError",
                       "ListenError", "TLSError"}
    /\ ~HistHas("handshake")
    /\ childOut = <<>>
    /\ rpc = "none"

\* C12: Serve goes on past the TLS step with no TLS configuration only if
\* the TLSConfig function returned the force-no-TLS error; a function that
\* returns a nil configuration with no error, or any other error, makes
\* Serve fail before the handshake line is written; with no function, a
\* missing or unparseable PLUGIN_CLIENT_CERT makes Serve fail.
C12_ServerTLS ==
    /\ (PastTLS /\ srv.tls = NoTLS) => FnReturned("forceNoTLS")
    /\ (FnReturned("nilConfig") \/ FnReturned("error")) =>
           FailedBeforeHandshake /\ srv.result = "TLSError"
    /\ (/\ srvCfg.TLSConfig = "nil"
        /\ AppendCertsFromPEM(Getenv(srvEnv, "PLUGIN_CLIENT_CERT")) = {}
        /\ srv.pc \notin {"idle", "start", "negotiate", "listen", "tls"}) =>
           /\ FailedBeforeHandshake
           /\ HistHas("bind") => srv.result = "TLSError"

C12_Witness ==
    /\ srv.pc = "wait"
    /\ srv.tls = NoTLS
    /\ FnReturned("forceNoTLS")
    /\ HistHas("handshake")


----------------------------------------------------------------------------
(* The failures of New after the child is started *)

CliHas(name) == \E i \in 1..Len(cli.hist) : cli.hist[i].ev = name

CliPositions(name) == {i \in 1..Len(cli.hist) : cli.hist[i].ev = name}

\* the errors New returns before the child runs
PreSpawnErrors == {"ConfigError", "PipeError", "SpawnError"}

\* the errors of the handshake line's checks
ValidationErrors ==
    {"invalid handshake message", "invalid handshake version", "invalid RPC protocol",
     "invalid protocol version", "unsupported protocol version",
     "invalid TCP socket address", "unsupported transport protocol"}

\* C13: when New fails after the child is started (timeout, exit of the
\* child before a line, a check of the handshake line, the decoding of the
\* certificate), it calls Kill on the child before it returns, the child
\* runs no more, and New returns no handle.
C13_FailureKills ==
    /\ (cli.pc = "returned" /\ cli.result = "error" /\ cli.err \notin PreSpawnErrors) =>
           /\ cli.err \in {"timeout", "exited without completing handshake",
                           "failed to parse certificate"} \cup ValidationErrors
           /\ cli.killIssued
           /\ Cardinality(CliPositions("Kill")) = 1
           /\ proc = "exited"
           /\ cli.cv = 0 /\ cli.addr = <<>>
    /\ (cli.pc = "returned" /\ cli.result = "handle") => ~CliHas("Kill")


\* New fails on the certificate field and kills a child that is running
C13_Witness ==
    /\ cli.pc = "returned"
    /\ cli.err = "failed to parse certificate"
    /\ \E i \in CliPositions("Kill") : cli.hist[i].arg = "running"
    /\ proc = "exited"


----------------------------------------------------------------------------
(* The start timeout *)

\* a case of New's select other than the timeout is ready
LineOrExitReady ==
    \/ HasLine(childOut, proc = "exited")
    \/ cli.stdoutCh = "closed"
    \/ cli.exitClosed

\* New has returned the timeout error after ServerStartTimeout, given the
\* StartTimeout in force, and after Kill
TimedOut ==
    /\ cli.pc = "returned"
    /\ cli.result = "error"
    /\ cli.err = "timeout"
    /\ cliCfg.Traced =>
           \E i \in CliPositions("ServerStartTimeout"), k \in CliPositions("Kill") :
               /\ i < k
               /\ cli.hist[i].arg = IF cliCfg.StartTimeout = 0 THEN OneMinute
                                    ELSE cliCfg.StartTimeout
    /\ CliHas("Kill")
    /\ proc = "exited"

\* C14: New does not wait for the handshake for ever: it returns; when it
\* returns while the child has neither a line for it nor has exited, it
\* returns the timeout error, after ServerStartTimeout with the
\* StartTimeout in force (one minute when the field is zero) and after the
\* kill of the child.
C14_StartTimeout ==
    /\ (cli.pc = "select") ~> (cli.pc = "returned")
    /\ [][(cli.pc = "select" /\ ~LineOrExitReady /\ cli'.pc = "returned") => TimedOut']_vars
    /\ [](cli.err = "timeout" => TimedOut)

\* New times out, with StartTimeout zero, on a child that runs and has
\* written nothing
C14_Witness ==
    /\ TimedOut
    /\ cliCfg.StartTimeout = 0 /\ cliCfg.Traced
    /\ childOut = <<>> /\ ~cli.lineRead
    /\ \E k \in CliPositions("Kill") : cli.hist[k].arg = "running"


----------------------------------------------------------------------------
(* The exit of the child during New *)

\* the child has written nothing to its stdout and had exited by itself
\* when New came to its end
ExitedWithoutLine ==
    /\ childKind = "other" /\ srv.pc = "other"
    /\ \E k \in CliPositions("Kill") : cli.hist[k].arg = "exited"

C17_ReaperOrder ==
    /\ [](/\ Cardinality(CliPositions("ProcessExited")) <= 1
          /\ Cardinality(CliPositions("exitClosed")) <= 1
          /\ \A e \in CliPositions("ProcessExited") :
                 \A c \in CliPositions("exitClosed") : e < c
          /\ cli.exitClosed <=> CliHas("exitClosed")
          /\ cli.exitClosed <=> cli.reaper = "done"
          /\ (cli.exitClosed /\ cliCfg.Traced) => CliHas("ProcessExited")
          /\ CliHas("ProcessExited") => proc = "exited")
    /\ (proc = "exited") ~> cli.exitClosed

C17_Witness ==
    /\ CliHas("ProcessExited")
    /\ cli.exitClosed
    /\ cli.reaper = "done"
    /\ cli.result = "handle"


----------------------------------------------------------------------------
(* The handle: Close, Client and the life of the child *)

C18_ChildAlive ==
    (cli.pc = "returned" /\ cli.result = "handle" /\ cli.close.pc = "none") =>
        proc = "running"

\* C19: once New has returned a handle, no step changes the address, the
\* TLS configuration or the protocol version of the handle; a call of
\* Client dials the address of the handle, and a call that succeeds
\* returns the protocol version of the handle.
C19_HandleImmutable ==
    /\ [][(cli.pc = "returned" /\ cli.result = "handle") =>
              /\ cli'.network = cli.network
              /\ cli'.addr = cli.addr
              /\ cli'.tlsConfig = cli.tlsConfig
              /\ cli'.protoVersion = cli.protoVersion
              /\ cli'.cv = cli.cv
              /\ cli'.pc = "returned" /\ cli'.result = "handle"]_vars
    /\ [](cli.call.n > 0 =>
              /\ cli.call.dialed = <<cli.network, cli.addr>>
              /\ cli.call.ret.err = "none" =>
                     cli.call.ret.protoVersion = cli.protoVersion
              /\ cli.call.ret.err # "none" => cli.call.ret.protoVersion = 0)

\* two calls of Client, the second one after Close, the exit of the child
\* and the end of the reaper, return the version New stored
C19_Witness ==
    /\ cli.call.n = MaxClientCalls
    /\ cli.call.ret.err = "none"
    /\ cli.call.ret.protoVersion = 1
    /\ cli.call.dialed = <<sUnix, cli.addr>>
    /\ cli.close.pc = "returned"
    /\ cli.reaper = "done"
    /\ cli.stdoutCh = "closed"
    /\ cli.tlsConfig.RootCAs # {}

\* C20: a call of Client emits Connect and then Connected or ConnectFailed,
\* one of the two, before it returns: Connected when it returns a client
\* object, ConnectFailed when it returns an error; the client object is
\* the one the ClientProxy of the factory of the negotiated version makes.
C20_ClientEvents ==
    (cli.call.n > 0 /\ cliCfg.Traced) =>
        \/ /\ cli.call.ret.err = "none"
           /\ cli.call.events = <<Event("Connect", cli.addr), Event("Connected", cli.addr)>>
           /\ cli.call.ret.client =
                  ClientProxy(cliCfg.ProtoVersions[cli.protoVersion], cli.network, cli.addr)
        \/ /\ cli.call.ret.err # "none"
           /\ cli.call.events = <<Event("Connect", cli.addr),
                                  Event("ConnectFailed", cli.addr)>>
           /\ cli.call.ret.client = <<>>


----------------------------------------------------------------------------
(* The result of Serve once it serves *)

\* Serve has returned from its wait for chiCtx (line 166)
WaitEnded ==
    /\ srv.pc = "returned"
    /\ HistHas("handshake")
    /\ srv.result # "panic"

C22_DoneIsError ==
    /\ (srv.pc = "returned" /\ ~HistHas("handshake")) => srv.result # "nil"
    /\ (WaitEnded /\ srv.chiBy = "ctx") => srv.result # "nil"


\* C23: Serve returns nil only when the RPC server handles no request any
\* more: it does not return while a request the server accepted is being
\* handled.
C23_NoRequestInFlight ==
    (srv.pc = "returned" /\ srv.result = "nil") => srv.inflight = 0

\* C24: with the shutdown service registered, a Shutdown RPC calls the
\* cancel function of Serve and returns; chiCtx is then done, by that
\* call if nothing else made it done before, and the plugin process lives
\* on until Serve returns nil.
C24_ShutdownCancels ==
    HistHas("Shutdown") =>
        /\ srv.chiErr # "none"
        /\ srv.chiBy \in {"shutdown", "ctx", "Done"}
        /\ srv.pc \in {"go", "listening", "wait", "returned"}
        /\ srv.pc = "returned" => srv.result \in {"nil", "DeadlineExceeded"}

\* Serve is past serverGRPC.Init and has not returned
PastInit == srv.pc \in {"signals", "handshake", "go", "listening", "wait"}

----------------------------------------------------------------------------
(* The one cancel of Serve, and interrupts *)

\* C26: the context of the caller becoming done, the Shutdown RPC and the
\* return of the RPC server's serve loop all cancel chiCtx; whichever of
\* them happen, in whatever order, chiCtx is done, Serve returns from its
\* wait only with chiCtx done, and the watcher of signals ends only after
\* chiCtx is done.
C26_SingleCancel ==
    /\ (ChiCtxLive /\ (ctxErr # "none" \/ rpc = "stopped")) => srv.chiErr # "none"
    /\ HistHas("Shutdown") =>
           /\ srv.chiErr # "none"
           /\ srv.pc \in {"go", "listening", "wait", "returned"}
    /\ WaitEnded => srv.chiErr # "none"
    /\ (srv.notify /\ ~srv.sigWatcher) => srv.chiErr # "none"

\* the counts the InterruptIgnored slot was called with, in order
RECURSIVE IgnoredCounts(_)
IgnoredCounts(h) ==
    IF h = <<>> THEN <<>>
    ELSE IF Head(h).ev = "InterruptIgnored"
    THEN <<Head(h).arg>> \o IgnoredCounts(Tail(h))
    ELSE IgnoredCounts(Tail(h))

\* C27: with NoSignalHandlers false, the N interrupts delivered to the
\* process while Serve serves give N calls of InterruptIgnored, with the
\* counts 1..N in order, once the watcher has taken what is in its channel,
\* and no interrupt makes Serve return; with NoSignalHandlers true
\* InterruptIgnored is never called.
C27_InterruptsCounted ==
    /\ srvCfg.NoSignalHandlers => IgnoredCounts(srvHist) = <<>>
    /\ (/\ ~srvCfg.NoSignalHandlers /\ srvTracer.InterruptIgnored
        /\ srv.sigWatcher /\ srv.sigCh = 0 /\ proc = "running") =>
           IgnoredCounts(srvHist) = [i \in 1..srv.sigSent |-> i]
    /\ (srv.pc = "returned" /\ srv.result = "nil") => srv.chiErr = "Canceled"


----------------------------------------------------------------------------
(* Standard output and standard error of the plugin process *)

\* Serve has os.Stdout and os.Stderr redirected
Redirected == srv.pc \in {"init", "signals", "handshake", "go", "listening", "wait"}

\* C28: Serve redirects os.Stdout and os.Stderr at most once in a call, and
\* on every path by which it returns or unwinds after that (failure of the
\* initialisation, failure of the write of the handshake line, the end of
\* chiCtx, a panic) they are again what they were before the call.
C28_StdioRestored ==
    /\ Cardinality(Positions("redirect")) <= 1
    /\ srv.pc = "returned" => stdio = "real"
    /\ stdio = "pipes" <=> Redirected
    /\ Redirected => HistHas("redirect")

\* Serve has unwound by a panic after the redirection
C28_Witness ==
    /\ srv.pc = "returned"
    /\ srv.result = "panic"
    /\ HistHas("redirect")
    /\ HistHas("handshake")
    /\ stdio = "real"

\* the handshake line Serve writes in this run
OwnHandshakeLine ==
    HandshakeLine(srv.protoVersion, srv.listener.network, srv.listener.addr,
                  srv.autoCertStr)

\* what has reached the process's stdout since Serve redirected os.Stdout
SinceRedirect ==
    LET r == CHOOSE i \in Positions("redirect") : TRUE
    IN SubSeq(childOut, srvHist[r].arg + 1, Len(childOut))

\* C29: from the redirection to the return of Serve the only data that
\* reaches the process's stdout is the one handshake line; what the code
\* of the plugin writes to its stdout and stderr in that time goes to the
\* pipes and not to the stdout and stderr of the process.
C29_OnlyHandshake ==
    /\ srv.leaks = 0
    /\ Redirected => SinceRedirect \in {<<>>, OwnHandshakeLine}


----------------------------------------------------------------------------
(* The choice of the transport *)

\* the names in PLUGIN_TRANSPORTS, or in its default
TransportNames ==
    Split(IF srvEnv["PLUGIN_TRANSPORTS"] = <<>> THEN <<"u", "n", "i", "x", ",", "t", "c", "p">>
          ELSE srvEnv["PLUGIN_TRANSPORTS"], ",")

\* the places in TransportNames of a known transport that the system lets
\* the process bind
Bindable(b) ==
    {i \in 1..Len(TransportNames) :
        \/ TransportNames[i] = <<"u", "n", "i", "x">> /\ b.unix
        \/ TransportNames[i] = <<"t", "c", "p">> /\ b.tcp}

\* C30: serverListen tries the transports of PLUGIN_TRANSPORTS ("unix,tcp"
\* when it is unset) in their order and the listener is that of the first
\* one that binds; a transport that does not bind, or whose name is
\* unknown, is passed over, so a failing unix bind with tcp in the list
\* gives a TCP listener on the loopback address; when none binds Serve
\* fails with the error of serverListen.
C30_FirstTransportWins ==
    \A t \in Positions("tryBind") :
        LET b == srvHist[t].arg
            first == CHOOSE i \in Bindable(b) : \A j \in Bindable(b) : i <= j
        IN IF Bindable(b) = {}
           THEN /\ srv.pc = "returned"
                /\ srv.result = "ListenError"
                /\ ~HistHas("bind")
                /\ ~srv.listener.open
           ELSE /\ srv.result # "ListenError"
                /\ \E e \in Positions("bind") : srvHist[e].arg = TransportNames[first]
                /\ srv.pc \in {"tls", "redirect", "init", "signals", "handshake", "go",
                               "listening", "wait"} =>
                       /\ rpc # "stopped" => srv.listener.open
                       /\ srv.listener.network = TransportNames[first]
                       /\ srv.listener.network = <<"t", "c", "p">> =>
                              SubSeq(srv.listener.addr, 1, 10) =
                                  <<"1", "2", "7", ".", "0", ".", "0", ".", "1", ":">>

\* the unix bind fails, tcp is second in the list and Serve listens on TCP
C30_Witness ==
    /\ srvEnv["PLUGIN_TRANSPORTS"] = <<>>
    /\ \E t \in Positions("tryBind") : ~srvHist[t].arg.unix /\ srvHist[t].arg.tcp
    /\ srv.pc = "wait"
    /\ srv.listener.open
    /\ srv.listener.network = <<"t", "c", "p">>


----------------------------------------------------------------------------
(* C31: the files of the UNIX socket after Serve has returned *)

\* serverListen has bound a UNIX socket
UnixBound ==
    \E i \in 1..Len(srvHist) : srvHist[i].ev = "bind" /\ srvHist[i].arg = sUnix

\* the directory of the socket, or something in it, exists
SocketFilesExist == \E f \in srv.fs : Below(socketDir(srvEnv), f)

\* C31: whenever Serve has returned after it bound a UNIX socket, the
\* listener is closed and neither the temporary directory nor the socket
\* exists, also when both the RPC server and the deferred Close of Serve
\* have closed the listener.
C31_UnixCleanup ==
    srv.pc = "returned" /\ UnixBound =>
        ~srv.listener.open /\ ~SocketFilesExist


----------------------------------------------------------------------------
(* C39: the files after a UNIX bind that failed *)

\* the paths that exist when Serve starts
InitialFiles(env) ==
    LET runtimeDir == Getenv(env, "XDG_RUNTIME_DIR")
    IN IF runtimeDir = <<>> THEN {} ELSE {runtimeDir, OtherFile(runtimeDir)}

\* serverListen has tried the UNIX transport and it did not bind
UnixBindFailed ==
    /\ \E i \in 1..Len(srvHist) :
          srvHist[i].ev = "tryBind" /\ ~srvHist[i].arg.unix
    /\ \E i \in 1..Len(Split(Transports(srvEnv), ",")) :
          Split(Transports(srvEnv), ",")[i] = sUnix
    /\ srv.listener.network # sUnix

\* C39: after a UNIX bind that failed, the paths that exist are those that
\* existed before the attempt: the temporary directory is gone and
\* nothing else was removed, whatever XDG_RUNTIME_DIR is.
C39_FailedBindLeavesFiles ==
    UnixBindFailed /\ srv.pc \in {"tls", "returned"} /\ srv.result \in {"none", "ListenError"}
        => srv.fs = InitialFiles(srvEnv)


----------------------------------------------------------------------------
(* C32: the errors of the server reach the caller of Serve *)

\* grpcServer.Serve has returned, which it does with an error
ServeLoopFailed == rpc = "stopped"

\* C32: whenever Serve has returned after the RPC serve loop stopped with
\* an error, or after a step of its initialisation failed, what it
\* returned is an error and not nil.
C32_ErrorsReturned ==
    srv.pc = "returned" /\ srv.result = "nil" =>
        ~ServeLoopFailed /\ HistHas("handshake")


----------------------------------------------------------------------------
(* C38: the interrupt handler after Serve has returned *)

\* the signal watcher has ended, or chiCtx is done so that it ends at its
\* next step
WatcherEnding == srv.sigWatcher => srv.chiErr # "none"

\* C38: whenever Serve has returned after it installed the handler of
\* interrupts, the signal watcher has ended or is about to end, and
\* interrupt signals are no longer sent to the channel of that call.
C38_WatcherEnds ==
    srv.pc = "returned" => WatcherEnding /\ ~srv.notify


----------------------------------------------------------------------------
(* C40: the writes of the plugin's code to the pipes *)

\* C40: a write of the plugin's code to the redirected stdout or stderr
\* that waits for room in the pipe goes on at some time, unless the
\* process ends.
C40_WritesProgress ==
    (srv.blocked > 0) ~> (srv.blocked = 0 \/ proc # "running")


----------------------------------------------------------------------------
(* C33, C34: the environment New gives the child *)

\* New has started the child
ChildStarted == CliHas("ProcessRunning")

\* Cmd.Env has an entry for name
EnvHas(list, name) == \E i \in 1..Len(list) : list[i][1] = name

\* C33: the environment of a child New has started has PLUGIN_CLIENT_CERT
\* if and only if New uses automatic TLS, whatever the context's
\* environment is, and then the child sees the PEM of the certificate in
\* the client's TLS configuration.
C33_ClientCertIffAutoTLS ==
    ChildStarted =>
        /\ EnvHas(cli.cmdEnv, "PLUGIN_CLIENT_CERT") <=> cli.autoTLS
        /\ cli.autoTLS =>
             EnvLookup(cli.cmdEnv, "PLUGIN_CLIENT_CERT") = PEMEncode(CertDER(0))

\* the value New computes for name, for some order of the versions
Computed(name, value) ==
    \E order \in Orders(DOMAIN cliCfg.ProtoVersions) :
        LET environ == ClientEnviron(cliCfg, order, PEMEncode(CertDER(0)))
        IN EnvHas(environ, name) => EnvLookup(environ, name) = value

\* C34: for each name New sets, the value the child sees is the one New
\* computed, also when the context's environment defines the name.
C34_PluginVarsWin ==
    ChildStarted =>
        \A name \in {cliCfg.CookieKey, "PLUGIN_MIN_PORT", "PLUGIN_MAX_PORT",
                     "PLUGIN_PROTOCOL_VERSIONS", "PLUGIN_CLIENT_CERT"} :
            Computed(name, EnvLookup(cli.cmdEnv, name))


----------------------------------------------------------------------------
(* C35, C36: the certificate field and the TLS configuration *)

\* the sixth field of the line New read, empty if the line has none
SixthField ==
    LET parts == SplitN(TrimSpace(cli.line), "|", 6)
    IN IF Len(parts) >= 6 THEN parts[6] ELSE <<>>

\* the RootCAs of the TLS configuration New works with, before it reads
\* the line
RootCAsBefore == IF cliCfg.TLSConfig = "nil" THEN {} ELSE CallerTLS.RootCAs

C36_CallerTLSUntouched ==
    cliCfg.TLSConfig = "caller" /\ ChildStarted => cli.tlsConfig = CallerTLS


----------------------------------------------------------------------------
(* C37: the end of the scanner task *)

\* C37: once the child has ended, and with it its stdout, the scanner task
\* closes the channel of lines at some time, whatever New returned and
\* whatever the child wrote; it does not wait forever to send a line.
C37_ScannerEnds ==
    (proc = "exited") ~> (cli.stdoutCh = "closed")

====
